---- MODULE Spec2Model ----
(***************************************************************************)
(* Sonacatworld: the agent decision and state-coordination core.           *)
(*                                                                         *)
(* Numbers.  Character.hunger is kept in hunger points; every deltaTime    *)
(* drawn below is a multiple of 120000 ms, so 0.5 * (deltaTime / 60000)    *)
(* is a whole number of points.  Character.age is kept in units of         *)
(* 1/3600000 year, so that "age += deltaTime / 3600000" adds deltaTime.    *)
(***************************************************************************)
EXTENDS Integers, Sequences, FiniteSets, TLC

VARIABLES
    characters,   \* CharacterSystem.characters: id -> Character
    shopStock,    \* Shop.inventory: ItemType -> number
    result,       \* what the last operation returned to its caller
    gameTime,     \* gameTime.current
    minerals,     \* mine.resourcePool.minerals: mineral id -> remaining count
    totalCapacity,\* mine.resourcePool.totalCapacity
    currentMiners,\* mine.currentMiners
    sessions,     \* the MiningSession objects created, in creation order
    refreshRate,  \* mine.resourcePool.refreshRate, in percent
    lastRefresh,  \* mine.resourcePool.lastRefresh
    relationships,\* character.relationships of every character (Relationship
                  \* class): id -> (targetId -> Relationship)
    managed,      \* character.relationships as RelationshipManager keeps
                  \* them (Relationship interface of the social design)
    queue,        \* DecisionQueue.queue
    processing,   \* DecisionQueue.processing
    inflight,     \* the processRequest promises not yet settled
    cooldowns,    \* AIScheduler.cooldowns
    requests,     \* RequestQueue.queue
    requestProcessing, \* RequestQueue.processing
    executing,    \* the request whose executeRequest is awaited
    contexts,     \* ContextManager.contexts: id -> CharacterContext.decisions
    currentResources, \* Mine.currentResources
    maxResources, \* Mine.maxResources
    lastRefreshTime,  \* Mine.lastRefreshTime
    miningCooldown,   \* MiningSystem.miningCooldown
    digs,         \* the dig calls waiting in simulateMining
    isRunning,    \* Game.isRunning
    isPaused,     \* Game.isPaused
    lastFrameTime,\* Game.lastFrameTime
    performanceNow, \* performance.now()
    pendingFrames,\* the gameLoop callbacks requestAnimationFrame holds
    frameUpdates, \* the calls of update made by the latest animation frame
    status,       \* the text of the system-status element
    memories      \* MemoryStore.memories of one agent

charVars == <<characters>>
shopVars == <<shopStock>>
mineVars == <<minerals, totalCapacity, currentMiners, sessions>>
refreshVars == <<refreshRate, lastRefresh>>
socialVars == <<relationships, managed>>
loopVars == <<isRunning, isPaused, lastFrameTime, performanceNow, pendingFrames,
              frameUpdates, status>>
storeVars == <<memories>>
schedulerVars == <<queue, processing, inflight, cooldowns>>
engineVars == <<requests, requestProcessing, executing, contexts>>
digVars == <<currentResources, maxResources, lastRefreshTime, miningCooldown,
             digs>>
vars == <<characters, shopStock, result, gameTime, minerals, totalCapacity,
          currentMiners, sessions, refreshRate, lastRefresh, relationships,
          managed, queue, processing, inflight, cooldowns,
          requests, requestProcessing, executing, contexts,
          currentResources, maxResources, lastRefreshTime, miningCooldown,
          digs, isRunning, isPaused, lastFrameTime, performanceNow, pendingFrames,
          frameUpdates, status, memories>>

\* what the Character and Shop operations leave alone
outsideShop == <<gameTime, mineVars, refreshVars, socialVars, loopVars, storeVars, digVars,
                 schedulerVars, engineVars>>
outsideCharacter == <<shopVars, outsideShop>>
\* what the mining operations leave alone, the clock apart
outsideMine == <<shopVars, refreshVars, socialVars, loopVars, storeVars, digVars, schedulerVars,
                 engineVars>>

-----------------------------------------------------------------------------
(* Bounds of the model *)

MaxAgeHours == 22
MaxMoney == 120
MaxQuantity == 3

-----------------------------------------------------------------------------
(* Map<K, V> helpers: a Map is a function whose domain is its key set *)

MapHas(m, k) == k \in DOMAIN m

MapSet(m, k, v) == [x \in (DOMAIN m) \cup {k} |-> IF x = k THEN v ELSE m[x]]

MapDelete(m, k) == [x \in (DOMAIN m) \ {k} |-> m[x]]

\* m.get(k) || 0
MapGetOr0(m, k) == IF MapHas(m, k) THEN m[k] ELSE 0

EmptyMap == [x \in {} |-> 0]

Max(a, b) == IF a >= b THEN a ELSE b

Min(a, b) == IF a <= b THEN a ELSE b

\* a sequence without its i-th element
RemoveAt(q, i) == SubSeq(q, 1, i - 1) \o SubSeq(q, i + 1, Len(q))

-----------------------------------------------------------------------------
(* Character (src/src/systems/character/Character.ts) *)

HOME == "home"
SHOP == "shop"
MINE == "mine"
Location == {HOME, SHOP, MINE}

\* deltaTime values (ms): 0, one hour, 200 minutes
DeltaTimes == {0, 3600000, 12000000}

\* hungerRestore values
HungerRestores == {0, 30, 150}

\* money amounts
Amounts == {0, 50, 150}

\* item types and quantities used by the inventory operations
CROP_WHEAT == "crop_wheat"
SEED_WHEAT == "seed_wheat"
ItemTypes == {CROP_WHEAT, SEED_WHEAT}
Quantities == {0, 1, 3}

\* initial ages drawn for randomAge(): 18 + Math.random() * 7
InitialAges == {18 * 3600000, 20 * 3600000}

\* new Character(config)
NewCharacter(initialHunger, initialMoney, age) ==
    [ age |-> age,
      hunger |-> initialHunger,
      money |-> initialMoney,
      location |-> HOME,
      isAlive |-> TRUE,
      currentAction |-> "null",
      inventory |-> EmptyMap ]

\* Character.die
die(c) == [c EXCEPT !.isAlive = FALSE]

\* a revision of update that recomputes isAlive from hunger on every call
Character_update_recompute(c, deltaTime) ==
    LET hungerDecay == deltaTime \div 120000
        h == Max(0, c.hunger - hungerDecay)
    IN  [c EXCEPT !.hunger = h, !.age = c.age + deltaTime, !.isAlive = (h > 0)]

\* a revision of update without the Math.max(0, ...) floor
Character_update_nofloor(c, deltaTime) ==
    IF ~c.isAlive THEN c
    ELSE LET hungerDecay == deltaTime \div 120000
             c1 == [c EXCEPT !.hunger = c.hunger - hungerDecay,
                             !.age = c.age + deltaTime]
         IN  IF c1.hunger <= 0 THEN die(c1) ELSE c1

\* Character.update(deltaTime)
Character_update(c, deltaTime) ==
    IF ~c.isAlive THEN c
    ELSE LET hungerDecay == deltaTime \div 120000
             c1 == [c EXCEPT !.hunger = Max(0, c.hunger - hungerDecay),
                             !.age = c.age + deltaTime]
         IN  IF c1.hunger <= 0 THEN die(c1) ELSE c1

\* Character.moveTo(newLocation)
Character_moveTo(c, newLocation) ==
    IF c.location = newLocation THEN c
    ELSE [c EXCEPT !.location = newLocation]

\* Character.eat(hungerRestore)
Character_eat(c, hungerRestore) ==
    [c EXCEPT !.hunger = Min(100, c.hunger + hungerRestore)]

\* Character.earnMoney(amount)
Character_earnMoney(c, amount) == [c EXCEPT !.money = c.money + amount]

\* a revision of spendMoney without the "money < amount" check
Character_spendMoney_nocheck(c, amount) ==
    [ok |-> TRUE, c |-> [c EXCEPT !.money = c.money - amount]]

\* Character.spendMoney(amount): the boolean returned and the character after
Character_spendMoney(c, amount) ==
    IF c.money < amount
    THEN [ok |-> FALSE, c |-> c]
    ELSE [ok |-> TRUE, c |-> [c EXCEPT !.money = c.money - amount]]

\* Character.addItem(itemType, quantity)
Character_addItem(c, itemType, quantity) ==
    LET current == MapGetOr0(c.inventory, itemType)
    IN  [c EXCEPT !.inventory = MapSet(c.inventory, itemType, current + quantity)]

\* a revision of removeItem that hands over what is held when asked for more
Character_removeItem_partial(c, itemType, quantity) ==
    LET current == MapGetOr0(c.inventory, itemType)
    IN  IF current <= quantity
        THEN [ok |-> current = quantity,
              c |-> [c EXCEPT !.inventory = MapDelete(c.inventory, itemType)]]
        ELSE [ok |-> TRUE,
              c |-> [c EXCEPT !.inventory =
                        MapSet(c.inventory, itemType, current - quantity)]]

\* Character.removeItem(itemType, quantity)
Character_removeItem(c, itemType, quantity) ==
    LET current == MapGetOr0(c.inventory, itemType)
        remaining == current - quantity
    IN  IF current < quantity
        THEN [ok |-> FALSE, c |-> c]
        ELSE IF remaining = 0
             THEN [ok |-> TRUE,
                   c |-> [c EXCEPT !.inventory = MapDelete(c.inventory, itemType)]]
             ELSE [ok |-> TRUE,
                   c |-> [c EXCEPT !.inventory = MapSet(c.inventory, itemType, remaining)]]

\* the items eaten: wheat restores 30 points, seeds have no hungerRestore
Items == {[type |-> CROP_WHEAT, hungerRestore |-> 30],
          [type |-> SEED_WHEAT, hungerRestore |-> 0]}

\* Character.eat(item) of the Character class of the design: the EatResult
\* and the character after
Character_design_eat(c, item) ==
    IF item.hungerRestore = 0
    THEN [success |-> FALSE, message |-> "NotEdible", c |-> c]
    ELSE IF ~(MapGetOr0(c.inventory, item.type) >= 1)
    THEN [success |-> FALSE, message |-> "InsufficientInventory", c |-> c]
    ELSE [success |-> TRUE, message |-> "ate",
          c |-> [Character_removeItem(c, item.type, 1).c
                    EXCEPT !.hunger = Min(100, c.hunger + item.hungerRestore)]]

\* eatFood(character, food): hunger first, then inventory.remove(food.id, 1),
\* whose boolean is not read
eatFood(c, food) ==
    Character_removeItem(
        [c EXCEPT !.hunger = Min(c.hunger + food.hungerRestore, 100)],
        food.type, 1).c

\* Character.move(newLocation) of the Character class of the design: the
\* MoveResult and the character after
Character_move(c, newLocation) ==
    IF c.location = newLocation
    THEN [success |-> FALSE, message |-> "already there", c |-> c]
    ELSE [success |-> TRUE, message |-> "moved",
          c |-> [c EXCEPT !.location = newLocation]]

\* Character.hasItem(itemType, quantity)
Character_hasItem(c, itemType, quantity) ==
    MapGetOr0(c.inventory, itemType) >= quantity

-----------------------------------------------------------------------------
(* The operations as steps on the registered characters *)

\* the call just made and what it returned: success is the boolean (or the
\* TransactionResult.success) handed back, arg the item type and n the
\* quantity the call was made with (kept for the calls that can fail)
Returned(op, id, success, arg, n) ==
    [op |-> op, id |-> id, success |-> success, arg |-> arg, n |-> n]

NoResult == Returned("none", "null", TRUE, "null", 0)

\* no LLMRequest: RequestQueue.process is not awaiting any executeRequest
NoRequest == [characterId |-> "null", priority |-> 0]

Update(id, deltaTime) ==
    /\ characters[id].age + deltaTime <= MaxAgeHours * 3600000
    /\ characters' = [characters EXCEPT ![id] = Character_update(@, deltaTime)]
    /\ result' = Returned("update", id, TRUE, "null", 0)
    /\ UNCHANGED outsideCharacter

MoveTo(id, newLocation) ==
    /\ characters' = [characters EXCEPT ![id] = Character_moveTo(@, newLocation)]
    /\ result' = Returned("moveTo", id, TRUE, newLocation, 0)
    /\ UNCHANGED outsideCharacter

Eat(id, hungerRestore) ==
    /\ characters' = [characters EXCEPT ![id] = Character_eat(@, hungerRestore)]
    /\ result' = Returned("eat", id, TRUE, "null", hungerRestore)
    /\ UNCHANGED outsideCharacter

EatItem(id, item) ==
    /\ characters' = [characters EXCEPT ![id] = Character_design_eat(@, item).c]
    /\ result' = Returned("eatItem", id,
                          Character_design_eat(characters[id], item).success,
                          Character_design_eat(characters[id], item).message,
                          item.hungerRestore)
    /\ UNCHANGED outsideCharacter

EatFood(id, food) ==
    /\ characters' = [characters EXCEPT ![id] = eatFood(@, food)]
    /\ result' = Returned("eatFood", id, TRUE, food.type, food.hungerRestore)
    /\ UNCHANGED outsideCharacter

Move(id, newLocation) ==
    /\ characters' = [characters EXCEPT ![id] = Character_move(@, newLocation).c]
    /\ result' = Returned("move", id,
                          Character_move(characters[id], newLocation).success,
                          newLocation, 0)
    /\ UNCHANGED outsideCharacter

EarnMoney(id, amount) ==
    /\ characters[id].money + amount <= MaxMoney
    /\ characters' = [characters EXCEPT ![id] = Character_earnMoney(@, amount)]
    /\ result' = Returned("earnMoney", id, TRUE, "null", 0)
    /\ UNCHANGED outsideCharacter

SpendMoney(id, amount) ==
    /\ characters' = [characters EXCEPT ![id] = Character_spendMoney(@, amount).c]
    /\ result' = Returned("spendMoney", id, Character_spendMoney(characters[id], amount).ok,
                          "null", 0)
    /\ UNCHANGED outsideCharacter

AddItem(id, itemType, quantity) ==
    /\ MapGetOr0(characters[id].inventory, itemType) + quantity <= MaxQuantity
    /\ characters' = [characters EXCEPT ![id] = Character_addItem(@, itemType, quantity)]
    /\ result' = Returned("addItem", id, TRUE, "null", 0)
    /\ UNCHANGED outsideCharacter

RemoveItem(id, itemType, quantity) ==
    /\ characters' = [characters EXCEPT ![id] = Character_removeItem(@, itemType, quantity).c]
    /\ result' = Returned("removeItem", id,
                          Character_removeItem(characters[id], itemType, quantity).ok,
                          itemType, quantity)
    /\ UNCHANGED outsideCharacter

-----------------------------------------------------------------------------
(* Specification of one Character under its own operations *)

\* MiningSystem before init()
InitNoDig ==
    /\ currentResources = 0
    /\ maxResources = 0
    /\ lastRefreshTime = 0
    /\ miningCooldown = EmptyMap
    /\ digs = <<>>

\* the Game after its constructor and init(): not running, no frame
\* requested, the status element showing that the game is ready
InitNoLoop ==
    /\ isRunning = FALSE
    /\ isPaused = FALSE
    /\ lastFrameTime = 0
    /\ performanceNow = 0
    /\ pendingFrames = 0
    /\ frameUpdates = 0
    /\ status = "ready"

\* the MemoryStore of an agent after its constructor
InitNoStore == memories = <<>>

\* a resource pool that is never refreshed; no relationship yet
InitNoRefresh ==
    /\ refreshRate = 0
    /\ lastRefresh = 0
    /\ InitNoLoop
    /\ InitNoStore
    /\ relationships = EmptyMap
    /\ managed = EmptyMap

\* the mine before any pool is configured: no minerals, no miner, no session
InitNoMine ==
    /\ gameTime = 0
    /\ InitNoRefresh
    /\ minerals = EmptyMap
    /\ totalCapacity = 0
    /\ currentMiners = {}
    /\ sessions = <<>>
    /\ InitNoDig

\* the decision pipeline before any request: empty queues, nothing in flight
InitNoDecisions ==
    /\ queue = <<>>
    /\ processing = {}
    /\ inflight = EmptyMap
    /\ cooldowns = EmptyMap
    /\ requests = <<>>
    /\ requestProcessing = FALSE
    /\ executing = NoRequest
    /\ contexts = EmptyMap

InitCharacter ==
    /\ \E h \in {100, 40}, m \in {100, 0}, a \in InitialAges :
          characters = [id \in {"c1"} |-> NewCharacter(h, m, a)]
    /\ shopStock = EmptyMap
    /\ result = NoResult
    /\ InitNoMine
    /\ InitNoDecisions

NextCharacter ==
    \/ \E id \in DOMAIN characters, dt \in DeltaTimes : Update(id, dt)
    \/ \E id \in DOMAIN characters, l \in Location : MoveTo(id, l)
    \/ \E id \in DOMAIN characters, r \in HungerRestores : Eat(id, r)
    \/ \E id \in DOMAIN characters, item \in Items : EatItem(id, item)
    \/ \E id \in DOMAIN characters, food \in Items : EatFood(id, food)
    \/ \E id \in DOMAIN characters, l \in Location : Move(id, l)
    \/ \E id \in DOMAIN characters, a \in Amounts : EarnMoney(id, a)
    \/ \E id \in DOMAIN characters, a \in Amounts : SpendMoney(id, a)
    \/ \E id \in DOMAIN characters, t \in ItemTypes, q \in Quantities : AddItem(id, t, q)
    \/ \E id \in DOMAIN characters, t \in ItemTypes, q \in Quantities : RemoveItem(id, t, q)

SpecCharacter == InitCharacter /\ [][NextCharacter]_vars

-----------------------------------------------------------------------------
(* Shop: the price tables of the Shop class, and the sell and buy          *)
(* transactions of the economy design                                      *)

MaxStock == 4

\* Shop.initializePrices: buyPrices (the entries of the item types drawn)
buyPrices == [t \in {SEED_WHEAT} |-> 5]

\* Shop.initializePrices: sellPrices (the entries of the item types drawn)
sellPrices == [t \in {CROP_WHEAT} |-> 15]

\* Shop.getBuyPrice: buyPrices.get(itemType) || null, null written 0
getBuyPrice(itemType) == MapGetOr0(buyPrices, itemType)

\* Shop.getSellPrice: sellPrices.get(itemType) || null, null written 0
getSellPrice(itemType) == MapGetOr0(sellPrices, itemType)

\* Shop.sell(character, itemType, quantity) of the economy design: the
\* TransactionResult.success, the character and the shop inventory after
Shop_sell(c, stock, itemType, quantity) ==
    IF ~Character_hasItem(c, itemType, quantity)
    THEN [success |-> FALSE, c |-> c, stock |-> stock]
    ELSE LET sellPrice == getSellPrice(itemType)
             totalPrice == sellPrice * quantity
         IN  IF sellPrice = 0
             THEN [success |-> FALSE, c |-> c, stock |-> stock]
             ELSE [success |-> TRUE,
                   c |-> [Character_removeItem(c, itemType, quantity).c
                             EXCEPT !.money = c.money + totalPrice],
                   stock |-> MapSet(stock, itemType,
                                    MapGetOr0(stock, itemType) + quantity)]

\* Shop.buy(character, itemType, quantity) of the economy design
Shop_buy(c, itemType, quantity) ==
    LET buyPrice == getBuyPrice(itemType)
        totalPrice == buyPrice * quantity
    IN  IF buyPrice = 0
        THEN [success |-> FALSE, c |-> c]
        ELSE IF c.money < totalPrice
             THEN [success |-> FALSE, c |-> c]
             ELSE [success |-> TRUE,
                   c |-> Character_addItem([c EXCEPT !.money = c.money - totalPrice],
                                           itemType, quantity)]

\* Shop.buy(itemType, quantity, characterMoney) of the Shop class: the
\* TransactionResult (success, amount); it changes nothing
Shop_class_buy(itemType, quantity, characterMoney) ==
    LET price == getBuyPrice(itemType)
        totalCost == price * quantity
    IN  IF price = 0 THEN [success |-> FALSE, amount |-> 0]
        ELSE IF characterMoney < totalCost THEN [success |-> FALSE, amount |-> 0]
        ELSE [success |-> TRUE, amount |-> totalCost]

\* Shop.sell(itemType, quantity) of the Shop class: the TransactionResult
\* (success, amount) and the shop inventory after
Shop_class_sell(stock, itemType, quantity) ==
    LET price == getSellPrice(itemType)
        totalEarning == price * quantity
    IN  IF price = 0 THEN [success |-> FALSE, amount |-> 0, stock |-> stock]
        ELSE [success |-> TRUE, amount |-> totalEarning,
              stock |-> MapSet(stock, itemType, MapGetOr0(stock, itemType) + quantity)]

ShopSell(id, itemType, quantity) ==
    LET r == Shop_sell(characters[id], shopStock, itemType, quantity)
    IN  /\ MapGetOr0(shopStock, itemType) + quantity <= MaxStock
        /\ r.c.money <= MaxMoney
        /\ characters' = [characters EXCEPT ![id] = r.c]
        /\ shopStock' = r.stock
        /\ result' = Returned("sell", id, r.success, itemType, quantity)
        /\ UNCHANGED outsideShop

ShopBuy(id, itemType, quantity) ==
    LET r == Shop_buy(characters[id], itemType, quantity)
    IN  /\ MapGetOr0(characters[id].inventory, itemType) + quantity <= MaxQuantity
        /\ characters' = [characters EXCEPT ![id] = r.c]
        /\ result' = Returned("buy", id, r.success, itemType, quantity)
        /\ UNCHANGED outsideCharacter

\* character id sells through the Shop class: shop.sell(itemType, quantity)
ShopClassSell(id, itemType, quantity) ==
    LET r == Shop_class_sell(shopStock, itemType, quantity)
    IN  /\ MapGetOr0(shopStock, itemType) + quantity <= MaxStock
        /\ shopStock' = r.stock
        /\ result' = Returned("shop_sell", id, r.success, itemType, quantity)
        /\ UNCHANGED <<charVars, outsideShop>>

\* character id buys through the Shop class:
\* shop.buy(itemType, quantity, character.money)
ShopClassBuy(id, itemType, quantity) ==
    LET r == Shop_class_buy(itemType, quantity, characters[id].money)
    IN  /\ result' = Returned("shop_buy", id, r.success, itemType, quantity)
        /\ UNCHANGED <<charVars, outsideCharacter>>

InitShop ==
    /\ \E m \in {100, 0} :
          characters = [id \in {"c1"} |-> NewCharacter(100, m, 18 * 3600000)]
    /\ shopStock = EmptyMap
    /\ result = NoResult
    /\ InitNoMine
    /\ InitNoDecisions

NextShop ==
    \/ \E id \in DOMAIN characters, a \in Amounts : EarnMoney(id, a)
    \/ \E id \in DOMAIN characters, a \in Amounts : SpendMoney(id, a)
    \/ \E id \in DOMAIN characters, t \in ItemTypes, q \in Quantities : AddItem(id, t, q)
    \/ \E id \in DOMAIN characters, t \in ItemTypes, q \in Quantities : RemoveItem(id, t, q)
    \/ \E id \in DOMAIN characters, t \in ItemTypes, q \in Quantities : ShopSell(id, t, q)
    \/ \E id \in DOMAIN characters, t \in ItemTypes, q \in Quantities : ShopBuy(id, t, q)
    \/ \E id \in DOMAIN characters, t \in ItemTypes, q \in Quantities : ShopClassSell(id, t, q)
    \/ \E id \in DOMAIN characters, t \in ItemTypes, q \in Quantities : ShopClassBuy(id, t, q)

SpecShop == InitShop /\ [][NextShop]_vars

-----------------------------------------------------------------------------
(* Mining sessions over the shared resource pool (mining design:           *)
(* startMining, updateMining, attemptMine, calculateDynamicProbabilities,  *)
(* endMining)                                                              *)

MaxSessions == 3
MaxGameTime == 20
MaxPerMineral == 1

\* MINING_DURATION ("for example 10 minutes of game time")
MINING_DURATION == 10

\* mine.capacity
MineCapacity == 2

\* the keys of pool.minerals in insertion order (INITIAL_RESOURCE_POOL)
MineralOrder == <<"copper", "iron", "silver", "gold">>

MineralIds == {MineralOrder[i] : i \in 1..Len(MineralOrder)}

\* values of "roll * 100" for roll = Math.random() * 100 in [0, 100):
\* roll = 0, 0.01, 0.5 and 50
Rolls == {0, 1, 50, 5000}

RECURSIVE SumCounts(_, _)
SumCounts(m, i) ==
    IF i > Len(MineralOrder) THEN 0
    ELSE MapGetOr0(m, MineralOrder[i]) + SumCounts(m, i + 1)

\* getTotalResources(pool): the units left over all minerals
getTotalResources(m) == SumCounts(m, 1)

\* calculateDynamicProbabilities(pool), each probability multiplied by
\* getTotalResources(pool): baseProbability * (count / (total *
\* baseProbability)) is count / total, and 0 for a count of 0
calculateDynamicProbabilities(m) ==
    [id \in DOMAIN m |-> IF m[id] = 0 THEN 0 ELSE m[id]]

\* the loop of attemptMine without the "remaining > 0" test
RECURSIVE attemptMineLoop_nocheck(_, _, _, _)
attemptMineLoop_nocheck(m, roll100, i, cumulative) ==
    IF i > Len(MineralOrder) THEN [mineral |-> "null", minerals |-> m]
    ELSE LET mineralId == MineralOrder[i]
             cum == cumulative + calculateDynamicProbabilities(m)[mineralId]
         IN  IF roll100 * getTotalResources(m) <= cum
             THEN [mineral |-> mineralId,
                   minerals |-> [m EXCEPT ![mineralId] = m[mineralId] - 1]]
             ELSE attemptMineLoop_nocheck(m, roll100, i + 1, cum)

\* the loop of attemptMine from position i on, with the cumulative
\* probability (times total) so far: the mineral granted, or "null", and the
\* pool after
RECURSIVE attemptMineLoop(_, _, _, _)
attemptMineLoop(m, roll100, i, cumulative) ==
    IF i > Len(MineralOrder) THEN [mineral |-> "null", minerals |-> m]
    ELSE LET mineralId == MineralOrder[i]
             cum == cumulative + calculateDynamicProbabilities(m)[mineralId]
         IN  IF roll100 * getTotalResources(m) <= cum /\ m[mineralId] > 0
             THEN [mineral |-> mineralId,
                   minerals |-> [m EXCEPT ![mineralId] = m[mineralId] - 1]]
             ELSE attemptMineLoop(m, roll100, i + 1, cum)

\* attemptMine(mineId), roll100 being roll * 100
attemptMine(m, roll100) ==
    IF getTotalResources(m) = 0 THEN [mineral |-> "null", minerals |-> m]
    ELSE attemptMineLoop(m, roll100, 1, 0)

\* Inventory.add(itemType, quantity) on character.inventory
Inventory_add(c, itemType, quantity) ==
    [c EXCEPT !.inventory =
        MapSet(c.inventory, itemType, MapGetOr0(c.inventory, itemType) + quantity)]

\* startMining(character, mine): returns a session or null
StartMining(id) ==
    /\ Len(sessions) < MaxSessions
    /\ IF Cardinality(currentMiners) >= MineCapacity
          \/ getTotalResources(minerals) = 0
       THEN /\ result' = Returned("startMining", id, FALSE, "null", 0)
            /\ UNCHANGED <<characters, mineVars>>
       ELSE /\ sessions' = Append(sessions,
                                  [characterId |-> id, startTime |-> gameTime,
                                   duration |-> MINING_DURATION,
                                   state |-> "mining", result |-> "null"])
            /\ currentMiners' = currentMiners \cup {id}
            /\ characters' = [characters EXCEPT ![id].currentAction = "mining"]
            /\ UNCHANGED <<minerals, totalCapacity>>
            /\ result' = Returned("startMining", id, TRUE, "null", 0)
    /\ UNCHANGED <<outsideMine, gameTime>>

\* endMining(session) on the character and the miner set
endMining(cs, miners, session) ==
    LET character == cs[session.characterId]
        c1 == IF session.state = "found" /\ session.result # "null"
              THEN Inventory_add(character, session.result, 1)
              ELSE character
    IN  [characters |-> [cs EXCEPT ![session.characterId] =
                                [c1 EXCEPT !.currentAction = "null"]],
         currentMiners |-> miners \ {session.characterId}]

\* updateMining(session, currentTime) for session number n, with the roll
\* attemptMine draws
UpdateMining(n, roll100) ==
    /\ n \in 1..Len(sessions)
    /\ sessions[n].state = "mining"
    /\ LET session == sessions[n]
           elapsed == gameTime - session.startTime
       IN  IF elapsed >= session.duration
           THEN LET got == attemptMine(minerals, roll100)
                    ended == IF got.mineral # "null"
                             THEN [session EXCEPT !.state = "found",
                                                  !.result = got.mineral]
                             ELSE [session EXCEPT !.state = "depleted"]
                    gone == ~MapHas(characters, session.characterId)
                    \* getCharacter gives undefined for a character that was
                    \* removed, and endMining throws at character.id
                    after == IF gone
                             THEN [characters |-> characters,
                                   currentMiners |-> currentMiners]
                             ELSE endMining(characters, currentMiners, ended)
                IN  /\ minerals' = got.minerals
                    /\ UNCHANGED totalCapacity
                    /\ sessions' = [sessions EXCEPT ![n] = ended]
                    /\ characters' = after.characters
                    /\ currentMiners' = after.currentMiners
                    /\ result' = IF gone
                                 THEN Returned("updateMining", session.characterId,
                                               FALSE, "TypeError", 0)
                                 ELSE Returned("updateMining", session.characterId,
                                               got.mineral # "null", got.mineral, 0)
           ELSE /\ result' = Returned("updateMining", session.characterId,
                                      FALSE, "null", 0)
                /\ UNCHANGED <<characters, mineVars>>
    /\ UNCHANGED <<outsideMine, gameTime>>

\* the game clock advances
AdvanceGameTime ==
    /\ gameTime + MINING_DURATION <= MaxGameTime
    /\ gameTime' = gameTime + MINING_DURATION
    /\ UNCHANGED <<characters, outsideMine, result, mineVars>>

\* pools of at most MaxPerMineral units of each mineral, not empty
InitialPools ==
    {m \in [MineralIds -> 0..MaxPerMineral] :
        getTotalResources(m) >= 1 /\ getTotalResources(m) <= 2}

InitMining ==
    /\ characters = [id \in {"c1", "c2"} |-> NewCharacter(100, 100, 18 * 3600000)]
    /\ shopStock = EmptyMap
    /\ result = NoResult
    /\ gameTime = 0
    /\ minerals \in InitialPools
    /\ totalCapacity = getTotalResources(minerals)
    /\ currentMiners = {}
    /\ sessions = <<>>
    /\ InitNoRefresh
    /\ InitNoDig
    /\ InitNoDecisions

NextMining ==
    \/ \E id \in DOMAIN characters : StartMining(id)
    \/ \E n \in 1..MaxSessions, r \in Rolls : UpdateMining(n, r)
    \/ AdvanceGameTime

SpecMining == InitMining /\ [][NextMining]_vars

\* the mine worked by a single character, who may start a session while
\* another of their sessions is under way
InitDraw ==
    /\ characters = [id \in {"c1"} |-> NewCharacter(100, 100, 18 * 3600000)]
    /\ shopStock = EmptyMap
    /\ result = NoResult
    /\ gameTime = 0
    /\ minerals \in InitialPools
    /\ totalCapacity = getTotalResources(minerals)
    /\ currentMiners = {}
    /\ sessions = <<>>
    /\ InitNoRefresh
    /\ InitNoDig
    /\ InitNoDecisions

SpecDraw == InitDraw /\ [][NextMining]_vars

-----------------------------------------------------------------------------
(* The resource pool of INITIAL_RESOURCE_POOL under mining sessions and
   ResourcePoolManager.refreshPool (part_003).  refreshRate is held in
   percent, so that the amounts of the rates used here are whole units. *)

\* the counts refreshPool caps each mineral at (INITIAL_RESOURCE_POOL)
PoolCaps == [copper |-> 100, iron |-> 60, silver |-> 30, gold |-> 10]

\* the share of a refresh that goes to each mineral, in percent
RefreshShares == [copper |-> 50, iron |-> 30, silver |-> 15, gold |-> 5]

\* values of pool.refreshRate: 0.1 and 1 per day
RefreshRates == {10, 100}

\* refreshPool with the Math.min dropped
refreshPool_nocap(m, capacity, rate) ==
    LET refreshAmount == (capacity * rate) \div 100
    IN  [id \in DOMAIN m |->
            m[id] + (refreshAmount * RefreshShares[id]) \div 100]

\* the minerals refreshPool writes when daysSinceRefresh >= 1
refreshPool(m, capacity, rate) ==
    LET refreshAmount == (capacity * rate) \div 100
    IN  [id \in DOMAIN m |->
            Min(m[id] + (refreshAmount * RefreshShares[id]) \div 100,
                PoolCaps[id])]

\* the units of gameTime in one day of refreshPool: currentTime is a number
\* of days that need not be whole, and the clock counts half days
DayLength == 2

\* refreshPool(pool, currentTime) called at the current game time
RefreshPool ==
    /\ LET daysSinceRefresh == gameTime - lastRefresh
       IN  IF daysSinceRefresh >= 1 * DayLength
           THEN /\ minerals' = refreshPool(minerals, totalCapacity, refreshRate)
                /\ lastRefresh' = gameTime
                /\ result' = Returned("refreshPool", "null", TRUE,
                                      "resource_pool_refreshed", 0)
           ELSE /\ result' = Returned("refreshPool", "null", FALSE, "null", 0)
                /\ UNCHANGED <<minerals, lastRefresh>>
    /\ UNCHANGED <<characters, shopVars, gameTime, totalCapacity, currentMiners,
                   sessions, refreshRate, socialVars, loopVars, storeVars, digVars, schedulerVars,
                   engineVars>>

\* the pools the model starts from: full, nearly full and empty
PoolStarts ==
    {PoolCaps,
     [copper |-> 95, iron |-> 58, silver |-> 29, gold |-> 10],
     [copper |-> 0, iron |-> 0, silver |-> 0, gold |-> 0]}

InitPool ==
    /\ characters = [id \in {"c1"} |-> NewCharacter(100, 100, 18 * 3600000)]
    /\ shopStock = EmptyMap
    /\ result = NoResult
    /\ gameTime = 0
    /\ minerals \in PoolStarts
    /\ totalCapacity = getTotalResources(PoolCaps)
    /\ currentMiners = {}
    /\ sessions = <<>>
    /\ refreshRate \in RefreshRates
    /\ lastRefresh = 0
    /\ InitNoLoop
    /\ InitNoStore
    /\ relationships = EmptyMap
    /\ managed = EmptyMap
    /\ InitNoDig
    /\ InitNoDecisions

NextPool ==
    \/ \E id \in DOMAIN characters : StartMining(id)
    \/ \E n \in 1..MaxSessions, r \in Rolls : UpdateMining(n, r)
    \/ AdvanceGameTime
    \/ RefreshPool

SpecPool == InitPool /\ [][NextPool]_vars

-----------------------------------------------------------------------------
(* The pool refreshed at times that are not whole days apart *)

MaxRefreshTime == 9

\* the game clock advances by half a day
RefreshTick ==
    /\ gameTime < MaxRefreshTime
    /\ gameTime' = gameTime + 1
    /\ UNCHANGED <<characters, outsideMine, result, mineVars>>

NextRefresh ==
    \/ RefreshPool
    \/ RefreshTick

SpecRefresh == InitPool /\ [][NextRefresh]_vars

-----------------------------------------------------------------------------
(* Digging in the mine (mining system: Mine, MiningSystem.dig)             *)

MaxResources == 2
MaxDigs == 2
MaxDigTime == 3690000

\* Mine.REFRESH_INTERVAL, in ms
REFRESH_INTERVAL == 3600000

\* Mine.REFRESH_AMOUNT
REFRESH_AMOUNT == 100

\* MiningSystem.MINING_TIME, in ms
MINING_TIME == 45000

\* Date.now() when the first dig can be made, the mine having been built at 0
DigStartTime == 3555000

\* items added to Mine.resourcePool: the commonest and the rarest
DigMinerals == {"mineral_copper", "mineral_gold"}

\* Mine.canMine()
Mine_canMine(current) == current > 0

\* Mine.mine() with the item resourcePool.draw() gives: the item or "null",
\* and currentResources after
Mine_mine(current, drawn) ==
    IF ~Mine_canMine(current) THEN [mineral |-> "null", current |-> current]
    ELSE [mineral |-> drawn, current |-> current - 1]

\* Mine.replenish(amount)
Mine_replenish(current, max, amount) == Min(max, current + amount)

\* MiningSystem.dig(character) up to "await this.simulateMining"
Dig(id) ==
    /\ Len(digs) < MaxDigs
    /\ LET character == characters[id]
           lastMining == MapGetOr0(miningCooldown, id)
           now == gameTime
       IN  IF character.location # MINE
           THEN /\ result' = Returned("dig", id, FALSE, "not at the mine", 0)
                /\ UNCHANGED digs
           ELSE IF now - lastMining < MINING_TIME
           THEN /\ result' = Returned("dig", id, FALSE, "mining, please wait", 0)
                /\ UNCHANGED digs
           ELSE IF ~Mine_canMine(currentResources)
           THEN /\ result' = Returned("dig", id, FALSE, "resources exhausted", 0)
                /\ UNCHANGED digs
           ELSE /\ digs' = Append(digs, [characterId |-> id, now |-> now])
                /\ UNCHANGED result
    /\ UNCHANGED <<characters, shopVars, gameTime, mineVars, refreshVars, socialVars, loopVars, storeVars, schedulerVars,
                   engineVars, currentResources, maxResources, lastRefreshTime,
                   miningCooldown>>

\* MiningSystem.dig(character) from the end of simulateMining on, for the
\* n-th waiting call and the item resourcePool.draw() gives
DigCompletes(n, drawn) ==
    /\ n \in 1..Len(digs)
    /\ gameTime >= digs[n].now + MINING_TIME
    /\ LET id == digs[n].characterId
           mined == Mine_mine(currentResources, drawn)
       IN  /\ currentResources' = mined.current
           /\ IF mined.mineral # "null"
              THEN /\ characters' = [characters EXCEPT
                          ![id] = Inventory_add(@, mined.mineral, 1)]
                   /\ miningCooldown' = MapSet(miningCooldown, id, digs[n].now)
                   /\ result' = Returned("dig", id, TRUE, mined.mineral, 0)
              ELSE /\ result' = Returned("dig", id, FALSE, "mining failed", 0)
                   /\ UNCHANGED <<characters, miningCooldown>>
    /\ digs' = RemoveAt(digs, n)
    /\ UNCHANGED <<shopVars, gameTime, mineVars, refreshVars, socialVars, loopVars, storeVars, schedulerVars, engineVars,
                   maxResources, lastRefreshTime>>

\* MiningSystem.update(deltaTime): Mine.update(Date.now())
MineUpdate ==
    /\ LET elapsed == gameTime - lastRefreshTime
           refreshes == elapsed \div REFRESH_INTERVAL
       IN  IF elapsed >= REFRESH_INTERVAL
           THEN /\ currentResources' =
                       Mine_replenish(currentResources, maxResources,
                                      REFRESH_AMOUNT * refreshes)
                /\ lastRefreshTime' = lastRefreshTime + refreshes * REFRESH_INTERVAL
           ELSE UNCHANGED <<currentResources, lastRefreshTime>>
    /\ UNCHANGED <<characters, shopVars, result, gameTime, mineVars, refreshVars, socialVars, loopVars, storeVars,
                   schedulerVars, engineVars, maxResources, miningCooldown, digs>>

\* Date.now() advances by one mining time
DigTick ==
    /\ gameTime + MINING_TIME <= MaxDigTime
    /\ gameTime' = gameTime + MINING_TIME
    /\ UNCHANGED <<characters, shopVars, result, mineVars, refreshVars, socialVars, loopVars, storeVars, digVars,
                   schedulerVars, engineVars>>

\* MiningSystem.init() with a mine of 1..MaxResources units, two characters
\* at the mine
InitDig ==
    /\ characters = [id \in {"c1", "c2"} |->
                        Character_moveTo(NewCharacter(100, 100, 18 * 3600000),
                                         MINE)]
    /\ shopStock = EmptyMap
    /\ result = NoResult
    /\ gameTime = DigStartTime
    /\ minerals = EmptyMap
    /\ totalCapacity = 0
    /\ currentMiners = {}
    /\ sessions = <<>>
    /\ InitNoRefresh
    /\ maxResources \in 1..MaxResources
    /\ currentResources = maxResources
    /\ lastRefreshTime = 0
    /\ miningCooldown = EmptyMap
    /\ digs = <<>>
    /\ InitNoDecisions

NextDig ==
    \/ \E id \in DOMAIN characters : Dig(id)
    \/ \E n \in 1..MaxDigs, drawn \in DigMinerals : DigCompletes(n, drawn)
    \/ MineUpdate
    \/ DigTick
    \/ \E id \in DOMAIN characters, l \in {HOME, MINE} : MoveTo(id, l)

SpecDig == InitDig /\ [][NextDig]_vars

-----------------------------------------------------------------------------
(* The decision scheduler (LLM design: DecisionQueue, AIScheduler) over    *)
(* the characters of CharacterSystem                                       *)

MaxSchedulerTime == 120
MaxQueue == 2

\* DecisionQueue.concurrency
concurrency == 5

\* AIScheduler.decisionInterval, in seconds of game time
decisionInterval == 60

\* what the clock advances by between two frames, in seconds of game time
SchedulerStep == 60

NEXT_ACTION == "next_action"
CONVERSATION == "conversation"

\* the ids of CharacterSystem.characters in insertion order
CharacterOrder == <<"c1", "c2", "c3", "c4", "c5", "c6">>

\* the characters a conversation reply is requested for
ConversationPartners == {"c1", "c6"}

\* the deltaTime of CharacterSystem.update: 80 game minutes, 40 hunger points
SystemDeltaTimes == {4800000}

\* a multiset as a Map from element to count
BagAdd(b, e) == MapSet(b, e, MapGetOr0(b, e) + 1)

BagRemove(b, e) == IF b[e] = 1 THEN MapDelete(b, e) ELSE MapSet(b, e, b[e] - 1)

RECURSIVE SumBag(_, _)
SumBag(b, S) ==
    IF S = {} THEN 0
    ELSE LET e == CHOOSE x \in S : TRUE IN b[e] + SumBag(b, S \ {e})

\* shouldDecide without the cooldown test
shouldDecide_nocooldown(cs, cd, id, currentTime) ==
    IF cs[id].currentAction # "null" THEN FALSE
    ELSE TRUE

\* AIScheduler.shouldDecide(character, currentTime)
shouldDecide(cs, cd, id, currentTime) ==
    IF cs[id].currentAction # "null" THEN FALSE
    ELSE IF currentTime < MapGetOr0(cd, id) THEN FALSE
    ELSE TRUE

\* the for-loop of AIScheduler.update with the cooldown left for the response
\* handler to set
RECURSIVE AIScheduler_enqueueAll_latecooldown(_, _, _, _, _)
AIScheduler_enqueueAll_latecooldown(cs, i, q, cd, currentTime) ==
    IF i > Len(CharacterOrder) THEN [queue |-> q, cooldowns |-> cd]
    ELSE LET id == CharacterOrder[i]
         IN  IF id \in DOMAIN cs /\ shouldDecide(cs, cd, id, currentTime)
             THEN AIScheduler_enqueueAll_latecooldown(cs, i + 1,
                      Append(q, [characterId |-> id, type |-> NEXT_ACTION]),
                      cd, currentTime)
             ELSE AIScheduler_enqueueAll_latecooldown(cs, i + 1, q, cd,
                                                      currentTime)

\* the for-loop of AIScheduler.update from character number i on: the queue
\* and the cooldowns after it
RECURSIVE AIScheduler_enqueueAll(_, _, _, _, _)
AIScheduler_enqueueAll(cs, i, q, cd, currentTime) ==
    IF i > Len(CharacterOrder) THEN [queue |-> q, cooldowns |-> cd]
    ELSE LET id == CharacterOrder[i]
         IN  IF id \in DOMAIN cs /\ shouldDecide(cs, cd, id, currentTime)
             THEN AIScheduler_enqueueAll(cs, i + 1,
                      Append(q, [characterId |-> id, type |-> NEXT_ACTION]),
                      MapSet(cd, id, currentTime + decisionInterval),
                      currentTime)
             ELSE AIScheduler_enqueueAll(cs, i + 1, q, cd, currentTime)

\* the promise processRequest(request) returns: getCharacter(id) is
\* undefined for an id that is not registered, and the prompt builders then
\* throw, so that promise can only be rejected
Launched(cs, request, currentTime) ==
    [characterId |-> request.characterId, type |-> request.type,
     character |-> request.characterId \in DOMAIN cs, since |-> currentTime]

\* DecisionQueue.processQueue without the "processing.size < concurrency" test
RECURSIVE processQueue_nolimit(_, _, _, _, _)
processQueue_nolimit(cs, q, proc, infl, currentTime) ==
    IF Len(q) > 0
    THEN LET request == Head(q)
         IN  IF request.characterId \in proc
             THEN processQueue_nolimit(cs, Tail(q), proc, infl, currentTime)
             ELSE processQueue_nolimit(cs, Tail(q),
                      proc \cup {request.characterId},
                      BagAdd(infl, Launched(cs, request, currentTime)),
                      currentTime)
    ELSE [queue |-> q, processing |-> proc, inflight |-> infl]

\* DecisionQueue.processQueue without the "processing.has" test
RECURSIVE processQueue_nodedup(_, _, _, _, _)
processQueue_nodedup(cs, q, proc, infl, currentTime) ==
    IF Len(q) > 0 /\ Cardinality(proc) < concurrency
    THEN LET request == Head(q)
         IN  processQueue_nodedup(cs, Tail(q), proc \cup {request.characterId},
                                  BagAdd(infl, Launched(cs, request, currentTime)),
                                  currentTime)
    ELSE [queue |-> q, processing |-> proc, inflight |-> infl]

\* DecisionQueue.processQueue(): the queue, the processing set and the
\* promises in flight after it
RECURSIVE processQueue(_, _, _, _, _)
processQueue(cs, q, proc, infl, currentTime) ==
    IF Len(q) > 0 /\ Cardinality(proc) < concurrency
    THEN LET request == Head(q)
         IN  IF request.characterId \in proc
             THEN processQueue(cs, Tail(q), proc, infl, currentTime)
             ELSE processQueue(cs, Tail(q), proc \cup {request.characterId},
                               BagAdd(infl, Launched(cs, request, currentTime)),
                               currentTime)
    ELSE [queue |-> q, processing |-> proc, inflight |-> infl]

\* AIScheduler.update(currentTime)
SchedulerUpdate ==
    /\ LET enq == AIScheduler_enqueueAll(characters, 1, queue, cooldowns, gameTime)
           after == processQueue(characters, enq.queue, processing, inflight,
                                 gameTime)
       IN  /\ cooldowns' = enq.cooldowns
           /\ queue' = after.queue
           /\ processing' = after.processing
           /\ inflight' = after.inflight
    /\ UNCHANGED <<characters, shopVars, result, gameTime, mineVars, refreshVars, socialVars, loopVars, storeVars, digVars, engineVars>>

\* DecisionQueue.enqueue(request), called for a conversation reply
Enqueue(id, type) ==
    /\ Len(queue) < MaxQueue
    /\ queue' = Append(queue, [characterId |-> id, type |-> type])
    /\ UNCHANGED <<characters, shopVars, result, gameTime, mineVars, refreshVars, socialVars, loopVars, storeVars, digVars, engineVars,
                   processing, inflight, cooldowns>>

\* DecisionQueue.processQueue(), called on its own
ProcessQueue ==
    /\ Len(queue) > 0
    /\ LET after == processQueue(characters, queue, processing, inflight, gameTime)
       IN  /\ queue' = after.queue
           /\ processing' = after.processing
           /\ inflight' = after.inflight
    /\ UNCHANGED <<characters, shopVars, result, gameTime, mineVars, refreshVars, socialVars, loopVars, storeVars, digVars, engineVars,
                   cooldowns>>

\* a processRequest promise settles: then(handleResponse) or
\* catch(handleError), and finally processing.delete(request.characterId)
Settle(request, fulfilled) ==
    /\ MapHas(inflight, request)
    /\ fulfilled => request.character
    /\ inflight' = BagRemove(inflight, request)
    /\ processing' = processing \ {request.characterId}
    /\ UNCHANGED <<characters, shopVars, result, gameTime, mineVars, refreshVars, socialVars, loopVars, storeVars, digVars, engineVars,
                   queue, cooldowns>>

\* walkTo(character, target): the character starts an action
WalkTo(id) ==
    /\ characters' = [characters EXCEPT ![id].currentAction = "walking"]
    /\ UNCHANGED <<shopVars, result, gameTime, mineVars, refreshVars, socialVars, loopVars, storeVars, digVars, schedulerVars,
                   engineVars>>

\* updateMovement(character, deltaTime) when the character has reached its
\* target
UpdateMovement(id) ==
    /\ characters[id].currentAction = "walking"
    /\ characters' = [characters EXCEPT ![id].currentAction = "null"]
    /\ UNCHANGED <<shopVars, result, gameTime, mineVars, refreshVars, socialVars, loopVars, storeVars, digVars, schedulerVars,
                   engineVars>>

\* CharacterSystem.update(deltaTime)
CharacterSystemUpdate(deltaTime) ==
    /\ \A id \in DOMAIN characters :
          characters[id].isAlive =>
              characters[id].age + deltaTime <= MaxAgeHours * 3600000
    /\ \E id \in DOMAIN characters : characters[id].isAlive
    /\ characters' = [id \in DOMAIN characters |->
                         IF characters[id].isAlive
                         THEN Character_update(characters[id], deltaTime)
                         ELSE characters[id]]
    /\ UNCHANGED <<shopVars, result, gameTime, mineVars, refreshVars, socialVars, loopVars, storeVars, digVars, schedulerVars,
                   engineVars>>

\* CharacterSystem.removeCharacter(id)
RemoveCharacter(id) ==
    /\ characters' = MapDelete(characters, id)
    /\ result' = Returned("removeCharacter", id, MapHas(characters, id), "null", 0)
    /\ UNCHANGED <<shopVars, gameTime, mineVars, refreshVars, socialVars, loopVars, storeVars, digVars, schedulerVars, engineVars>>

\* the mine with characters that can be removed while their session runs
NextApply ==
    \/ \E id \in DOMAIN characters : StartMining(id)
    \/ \E n \in 1..MaxSessions, r \in Rolls : UpdateMining(n, r)
    \/ AdvanceGameTime
    \/ \E id \in {"c1"} \cap DOMAIN characters : RemoveCharacter(id)

SpecApply == InitMining /\ [][NextApply]_vars

\* the game clock advances by one frame
SchedulerTick ==
    /\ gameTime + SchedulerStep <= MaxSchedulerTime
    /\ gameTime' = gameTime + SchedulerStep
    /\ UNCHANGED <<characters, shopVars, result, mineVars, refreshVars, socialVars, loopVars, storeVars, digVars, schedulerVars,
                   engineVars>>

InitScheduler ==
    /\ characters = [id \in {"c1", "c2"} |->
                        NewCharacter(IF id = "c1" THEN 100 ELSE 40, 100,
                                     18 * 3600000)]
    /\ shopStock = EmptyMap
    /\ result = NoResult
    /\ InitNoMine
    /\ InitNoDecisions

NextScheduler ==
    \/ SchedulerUpdate
    \/ \E id \in DOMAIN characters : Enqueue(id, CONVERSATION)
    \/ ProcessQueue
    \/ \E request \in DOMAIN inflight, fulfilled \in BOOLEAN :
          Settle(request, fulfilled)
    \/ \E id \in DOMAIN characters : WalkTo(id)
    \/ \E id \in DOMAIN characters : UpdateMovement(id)
    \/ \E dt \in SystemDeltaTimes : CharacterSystemUpdate(dt)
    \/ \E id \in DOMAIN characters : RemoveCharacter(id)
    \/ SchedulerTick

SpecScheduler == InitScheduler /\ [][NextScheduler]_vars

-----------------------------------------------------------------------------
(* The DecisionQueue with more characters than concurrency slots *)

\* six characters, one more than DecisionQueue.concurrency
InitCrowd ==
    /\ characters = [id \in {CharacterOrder[i] : i \in 1..Len(CharacterOrder)}
                        |-> NewCharacter(100, 100, 18 * 3600000)]
    /\ shopStock = EmptyMap
    /\ result = NoResult
    /\ InitNoMine
    /\ InitNoDecisions

NextCrowd ==
    \/ SchedulerUpdate
    \/ \E id \in ConversationPartners : Enqueue(id, CONVERSATION)
    \/ ProcessQueue
    \/ \E request \in DOMAIN inflight, fulfilled \in BOOLEAN :
          Settle(request, fulfilled)
    \/ SchedulerTick

SpecCrowd == InitCrowd /\ [][NextCrowd]_vars

-----------------------------------------------------------------------------
(* The DecisionQueue in front of a provider that may stay silent: the game
   loop keeps calling update and advancing the clock, which is all the
   scheduling the code has, and nothing obliges a call to settle.  The loop
   never ends: once the clock has reached MaxSchedulerTime a frame is
   recorded by moving every stored time back by one frame, which is the same
   to shouldDecide, since it only compares a cooldown with the current
   time. *)

\* a stored time one frame later, relative to the current time
Rebased(t) == Max(0, t - SchedulerStep)

\* the clock advances by one frame after MaxSchedulerTime
SchedulerTickOn ==
    /\ gameTime + SchedulerStep > MaxSchedulerTime
    /\ cooldowns' = [id \in DOMAIN cooldowns |-> Rebased(cooldowns[id])]
    /\ LET moved(r) == [r EXCEPT !.since = Rebased(r.since)]
           keys == {moved(r) : r \in DOMAIN inflight}
       IN  inflight' = [k \in keys |->
                           SumBag(inflight,
                                  {r \in DOMAIN inflight : moved(r) = k})]
    /\ UNCHANGED <<characters, shopVars, result, gameTime, mineVars,
                   refreshVars, socialVars, loopVars, storeVars, digVars, engineVars, queue,
                   processing>>

NextSilent ==
    \/ SchedulerUpdate
    \/ \E id \in DOMAIN characters : Enqueue(id, CONVERSATION)
    \/ ProcessQueue
    \/ \E request \in DOMAIN inflight, fulfilled \in BOOLEAN :
          Settle(request, fulfilled)
    \/ SchedulerTick
    \/ SchedulerTickOn

SpecSilent ==
    /\ InitScheduler
    /\ [][NextSilent]_vars
    /\ WF_vars(SchedulerUpdate)
    /\ WF_vars(SchedulerTick)
    /\ WF_vars(SchedulerTickOn)

\* the number of promises in flight for one character id
InFlightCount(id) ==
    SumBag(inflight, {r \in DOMAIN inflight : r.characterId = id})

-----------------------------------------------------------------------------
(* The LLM engine (LLM design: LLMEngine.decide, parseDecision,            *)
(* RequestQueue, CharacterContext) over the characters of CharacterSystem  *)

MaxRequests == 3
MaxDecides == 2

\* enum Priority
LOW == 0
NORMAL == 1
HIGH == 2
URGENT == 3

\* enum ActionType, each member written by its name as the provider writes
\* it in the "action" field
ActionType == {"sleep", "wake_up", "eat", "walk", "plant", "harvest", "fish",
               "mine", "buy", "sell", "talk", "join_hall_event"}

WALK == "walk"

\* raw provider responses: the one executeRequest is sketched with, prose,
\* the JSON texts null and 42, an object without "action", an object whose
\* action is no ActionType
R_WALK == "{\"action\": \"walk\", \"reasoning\": \"stroll\"}"
R_PROSE == "I will walk."
R_NULL == "null"
R_NUMBER == "42"
R_NO_ACTION == "{\"reasoning\": \"hungry\"}"
R_UNKNOWN == "{\"action\": \"fly\"}"

Responses == {R_WALK, R_PROSE, R_NULL, R_NUMBER, R_NO_ACTION, R_UNKNOWN}

\* what LLMAPIClient.complete throws (fetch fails, or response.ok is false)
PROVIDER_ERROR == "API request failed"

\* JSON.parse(text): ok is FALSE when it throws a SyntaxError; otherwise the
\* type of the value and what reading its property "action" gives
JSON_parse(text) ==
    CASE text = R_WALK ->
            [ok |-> TRUE, type |-> "object", action |-> "walk"]
      [] text = R_NO_ACTION ->
            [ok |-> TRUE, type |-> "object", action |-> "undefined"]
      [] text = R_UNKNOWN ->
            [ok |-> TRUE, type |-> "object", action |-> "fly"]
      [] text = R_NULL ->
            [ok |-> TRUE, type |-> "null", action |-> "undefined"]
      [] text = R_NUMBER ->
            [ok |-> TRUE, type |-> "number", action |-> "undefined"]
      [] OTHER ->
            [ok |-> FALSE, type |-> "undefined", action |-> "undefined"]

\* the default decision of parseDecision's catch block
DefaultDecision == [action |-> WALK, emotion |-> "confused"]

\* LLMEngine.parseDecision(response): reading json.action of null throws a
\* TypeError inside the try block
parseDecision(response) ==
    LET json == JSON_parse(response)
    IN  IF ~json.ok \/ json.type = "null"
        THEN DefaultDecision
        ELSE [action |-> json.action, emotion |-> "neutral"]

\* LLMEngine.calculatePriority(character, context), the context holding the
\* character's state
calculatePriority(c) ==
    IF c.hunger < 20 THEN URGENT
    ELSE IF c.money < 10 THEN HIGH
    ELSE NORMAL

\* CharacterContext.addDecision(decision)
addDecision(decisions, decision) ==
    LET pushed == Append(decisions, decision)
    IN  IF Len(pushed) > 10 THEN Tail(pushed) ELSE pushed

\* the comparator with its operands exchanged
comparator_exchanged(a, b) == a.priority - b.priority

\* the comparator the queue is built with: (a, b) => b.priority - a.priority
comparator(a, b) == b.priority - a.priority

\* the positions PriorityQueue.pop() may take from: those that come first
\* in the order of the comparator (negative: a before b)
popChoices(q) ==
    {i \in 1..Len(q) : \A j \in 1..Len(q) : comparator(q[i], q[j]) <= 0}

\* what the caller of decide gets when its promise settles
DecideResolved(id, response, decision) ==
    [op |-> "decide", id |-> id, success |-> TRUE, arg |-> response, n |-> 0,
     decision |-> decision]

DecideRejected(id, error) ==
    [op |-> "decide", id |-> id, success |-> FALSE, arg |-> error, n |-> 0,
     decision |-> [action |-> "undefined", emotion |-> "undefined"]]

\* CharacterContext.decisions of one character
DecisionsOf(id) == IF MapHas(contexts, id) THEN contexts[id] ELSE <<>>

\* the decide calls of one character that have not settled
PendingFor(id) ==
    Cardinality({i \in 1..Len(requests) : requests[i].characterId = id})
    + (IF executing.characterId = id THEN 1 ELSE 0)

\* LLMEngine.decide(character, context) up to its await: getContext,
\* RequestQueue.enqueue and, when the queue is idle, the start of process()
Decide(id) ==
    /\ characters[id].isAlive
    /\ Len(requests) < MaxRequests
    /\ PendingFor(id) + Len(DecisionsOf(id)) < MaxDecides
    /\ contexts' = IF MapHas(contexts, id) THEN contexts
                   ELSE MapSet(contexts, id, <<>>)
    /\ LET request == [characterId |-> id,
                       priority |-> calculatePriority(characters[id])]
           pushed == Append(requests, request)
       IN  IF requestProcessing
           THEN /\ requests' = pushed
                /\ UNCHANGED <<requestProcessing, executing>>
           ELSE /\ requestProcessing' = TRUE
                /\ \E i \in popChoices(pushed) :
                      /\ executing' = pushed[i]
                      /\ requests' = RemoveAt(pushed, i)
    /\ UNCHANGED <<characters, shopVars, result, gameTime, mineVars, refreshVars, socialVars, loopVars, storeVars, digVars,
                   schedulerVars>>

\* the awaited executeRequest settles with a response or with the error of
\* LLMAPIClient.complete: request.resolve or request.reject, the rest of
\* decide for that request, and the next turn of the loop of process()
ExecuteSettles(outcome) ==
    /\ executing # NoRequest
    /\ LET id == executing.characterId
       IN  IF outcome = PROVIDER_ERROR
           THEN /\ result' = DecideRejected(id, outcome)
                /\ UNCHANGED contexts
           ELSE LET decision == parseDecision(outcome)
                IN  /\ contexts' = [contexts EXCEPT
                                       ![id] = addDecision(@, decision)]
                    /\ result' = DecideResolved(id, outcome, decision)
    /\ IF requests = <<>>
       THEN /\ executing' = NoRequest
            /\ requestProcessing' = FALSE
            /\ UNCHANGED requests
       ELSE /\ \E i \in popChoices(requests) :
                  /\ executing' = requests[i]
                  /\ requests' = RemoveAt(requests, i)
            /\ UNCHANGED requestProcessing
    /\ UNCHANGED <<characters, shopVars, gameTime, mineVars, refreshVars, socialVars, loopVars, storeVars, digVars, schedulerVars>>

InitEngine ==
    /\ characters = [id \in {"c1", "c2"} |->
                        IF id = "c1" THEN NewCharacter(100, 100, 18 * 3600000)
                        ELSE NewCharacter(50, 5, 18 * 3600000)]
    /\ shopStock = EmptyMap
    /\ result = NoResult
    /\ InitNoMine
    /\ InitNoDecisions

NextEngine ==
    \/ \E id \in DOMAIN characters : Decide(id)
    \/ \E outcome \in Responses \cup {PROVIDER_ERROR} : ExecuteSettles(outcome)
    \/ \E dt \in SystemDeltaTimes : CharacterSystemUpdate(dt)
    \/ \E id \in DOMAIN characters : RemoveCharacter(id)

SpecEngine == InitEngine /\ [][NextEngine]_vars

-----------------------------------------------------------------------------
(* Relationships: the Relationship class of part_000 under the directed
   calls of the social design, and RelationshipManager.updateRelationship.
   trust, affection and friendship are held in hundredths; the clock read
   by an update has advanced by one unit when the next one reads it. *)

MaxSocialTime == 2

\* the characters that meet
SocialIds == {"c1", "c2", "c3"}

FRIENDLY_CHAT == "friendly_chat"
BETRAYAL == "betrayal"
COOPERATION == "cooperation"
ARGUMENT == "argument"

\* values of SocialEvent.type; the switch of Relationship.update has no
\* case for the last one
SocialEventTypes == {FRIENDLY_CHAT, BETRAYAL, ARGUMENT}

\* values of SocialEvent.impact: 0.05
Impacts == {5}

STRANGER == "stranger"
ACQUAINTANCE == "acquaintance"
FRIEND == "friend"
CLOSE_FRIEND == "close_friend"
ENEMY == "enemy"

\* MathUtils.clamp(value, min, max)
clamp(value, min, max) == Max(min, Min(value, max))

\* new Relationship(targetId)
NewRelationship(targetId) ==
    [targetId |-> targetId, trust |-> 0, affection |-> 0, interactions |-> 0,
     lastInteraction |-> 0, relationshipType |-> STRANGER, memories |-> <<>>]

\* Relationship.updateRelationshipType()
updateRelationshipType(r) ==
    IF r.trust > 70 /\ r.affection > 70
    THEN [r EXCEPT !.relationshipType = CLOSE_FRIEND]
    ELSE IF r.trust > 30 \/ r.affection > 30
    THEN [r EXCEPT !.relationshipType = FRIEND]
    ELSE IF r.trust < -30 \/ r.affection < -30
    THEN [r EXCEPT !.relationshipType = ENEMY]
    ELSE IF r.interactions > 5
    THEN [r EXCEPT !.relationshipType = ACQUAINTANCE]
    ELSE r

\* Relationship.update(event) without the two clamp lines
Relationship_update_noclamp(r, event, now) ==
    LET trust == CASE event.type = FRIENDLY_CHAT -> r.trust + 5
                   [] event.type = BETRAYAL -> r.trust - 30
                   [] event.type = COOPERATION -> r.trust + 10
                   [] OTHER -> r.trust
        affection == CASE event.type = FRIENDLY_CHAT -> r.affection + 5
                       [] event.type = BETRAYAL -> r.affection - 20
                       [] OTHER -> r.affection
        r1 == [r EXCEPT !.interactions = @ + 1,
                        !.lastInteraction = now,
                        !.trust = trust,
                        !.affection = affection]
        r2 == updateRelationshipType(r1)
    IN  [r2 EXCEPT !.memories =
            Append(@, [event |-> event.type, timestamp |-> now,
                       impact |-> event.impact])]

\* Relationship.update(event) at Date.now() = now
Relationship_update(r, event, now) ==
    LET trust == CASE event.type = FRIENDLY_CHAT -> r.trust + 5
                   [] event.type = BETRAYAL -> r.trust - 30
                   [] event.type = COOPERATION -> r.trust + 10
                   [] OTHER -> r.trust
        affection == CASE event.type = FRIENDLY_CHAT -> r.affection + 5
                       [] event.type = BETRAYAL -> r.affection - 20
                       [] OTHER -> r.affection
        r1 == [r EXCEPT !.interactions = @ + 1,
                        !.lastInteraction = now,
                        !.trust = clamp(trust, -100, 100),
                        !.affection = clamp(affection, -100, 100)]
        r2 == updateRelationshipType(r1)
    IN  [r2 EXCEPT !.memories =
            Append(@, [event |-> event.type, timestamp |-> now,
                       impact |-> event.impact])]

\* whether from holds a record about to
HasRecord(rels, from, to) == MapHas(rels, from) /\ MapHas(rels[from], to)

\* the record from holds about to, as a sequence of at most one record
RecordOf(rels, from, to) ==
    IF HasRecord(rels, from, to) THEN <<rels[from][to]>> ELSE <<>>

\* from.relationships.get(to.id)?.update(event) when the two directions
\* share one Relationship object
Relationships_update_shared(rels, from, to, event, now) ==
    IF HasRecord(rels, from, to) /\ HasRecord(rels, to, from)
    THEN [rels EXCEPT ![from][to] = Relationship_update(@, event, now),
                      ![to][from] = Relationship_update(@, event, now)]
    ELSE rels

\* from.relationships.get(to.id)?.update(event)
Relationships_update(rels, from, to, event, now) ==
    IF HasRecord(rels, from, to)
    THEN [rels EXCEPT ![from][to] = Relationship_update(@, event, now)]
    ELSE rels

\* RelationshipManager.createRelationship(targetId)
createRelationship(targetId) ==
    [targetId |-> targetId, trust |-> 0, friendship |-> 0,
     memories |-> <<>>, recentInteractions |-> <<>>,
     totalInteractions |-> 0, lastInteraction |-> 0]

\* the memories RelationshipManager is given: a pleasant conversation
\* (friendship 0.05, trust 0.02) and a conflict (trust -0.3, no friendship)
Memories ==
    {[type |-> "conversation", trust |-> 2, friendship |-> 5],
     [type |-> "conflict", trust |-> -30, friendship |-> 0]}

\* RelationshipManager.updateRelationship(from, to, memory) on
\* from.relationships
RelationshipManager_updateRelationship(rels, from, to, memory, now) ==
    LET r0 == IF MapHas(rels[from], to) THEN rels[from][to]
              ELSE createRelationship(to)
        r1 == IF memory.trust # 0
              THEN [r0 EXCEPT !.trust = clamp(@ + memory.trust, 0, 100)]
              ELSE r0
        r2 == IF memory.friendship # 0
              THEN [r1 EXCEPT !.friendship =
                                 clamp(@ + memory.friendship, 0, 100)]
              ELSE r1
        pushed == Append(r2.recentInteractions, memory.type)
        r3 == [r2 EXCEPT !.memories = Append(@, memory.type),
                         !.recentInteractions =
                             IF Len(pushed) > 10 THEN Tail(pushed) ELSE pushed,
                         !.totalInteractions = @ + 1,
                         !.lastInteraction = now]
    IN  [rels EXCEPT ![from] = MapSet(@, to, r3)]

\* the ordered pairs of different characters
SocialPairs == {p \in SocialIds \X SocialIds : p[1] # p[2]}

socialFrame == <<characters, shopVars, mineVars, refreshVars, digVars, loopVars, storeVars,
                 schedulerVars, engineVars>>

\* SocialSystem.startConversation(char1, char2): the records of both
\* directions are created if absent
StartConversation(char1, char2) ==
    /\ char1 # char2
    /\ LET one == IF ~MapHas(relationships[char1], char2)
                  THEN [relationships EXCEPT
                           ![char1] = MapSet(@, char2, NewRelationship(char2))]
                  ELSE relationships
       IN  relationships' =
               IF ~MapHas(one[char2], char1)
               THEN [one EXCEPT ![char2] = MapSet(@, char1, NewRelationship(char1))]
               ELSE one
    /\ result' = Returned("startConversation", char1, TRUE, char2, 0)
    /\ UNCHANGED <<socialFrame, gameTime, managed>>

\* char1.relationships.get(char2.id)?.update(event): one direction
ApplyEvent(from, to, event) ==
    /\ from # to
    /\ gameTime' = gameTime + 1
    /\ relationships' = Relationships_update(relationships, from, to, event,
                                             gameTime)
    /\ result' = Returned("Relationship.update", from,
                          HasRecord(relationships, from, to), to, 0)
    /\ UNCHANGED <<socialFrame, managed>>

\* SocialSystem.updateRelationship(char1, char2, event): rel1?.update(event)
\* and rel2?.update(event)
SocialSystem_updateRelationship(char1, char2, event) ==
    /\ char1 # char2
    /\ gameTime' = gameTime + 1
    /\ relationships' =
           Relationships_update(
               Relationships_update(relationships, char1, char2, event,
                                    gameTime),
               char2, char1, event, gameTime)
    /\ result' = Returned("SocialSystem.updateRelationship", char1, TRUE,
                          char2, 0)
    /\ UNCHANGED <<socialFrame, managed>>

\* RelationshipManager.updateRelationship(from, to, memory)
ManagerUpdateRelationship(from, to, memory) ==
    /\ from # to
    /\ gameTime' = gameTime + 1
    /\ managed' = RelationshipManager_updateRelationship(managed, from, to,
                                                        memory, gameTime)
    /\ result' = Returned("updateRelationship", from, TRUE, to, 0)
    /\ UNCHANGED <<socialFrame, relationships>>

InitSocial ==
    /\ characters = [id \in SocialIds |-> NewCharacter(100, 100, 18 * 3600000)]
    /\ shopStock = EmptyMap
    /\ result = NoResult
    /\ gameTime = 0
    /\ minerals = EmptyMap
    /\ totalCapacity = 0
    /\ currentMiners = {}
    /\ sessions = <<>>
    /\ refreshRate = 0
    /\ lastRefresh = 0
    /\ InitNoLoop
    /\ InitNoStore
    /\ relationships = [id \in SocialIds |-> EmptyMap]
    /\ managed = [id \in SocialIds |-> EmptyMap]
    /\ InitNoDig
    /\ InitNoDecisions

NextSocial ==
    \/ \E a, b \in SocialIds : StartConversation(a, b)
    \/ \E a, b \in SocialIds, t \in SocialEventTypes, m \in Impacts :
          /\ gameTime < MaxSocialTime
          /\ ApplyEvent(a, b, [type |-> t, impact |-> m])
    \/ \E a, b \in SocialIds, t \in SocialEventTypes, m \in Impacts :
          /\ gameTime < MaxSocialTime
          /\ SocialSystem_updateRelationship(a, b, [type |-> t, impact |-> m])
    \/ \E a, b \in SocialIds, memory \in Memories :
          /\ gameTime < MaxSocialTime
          /\ ManagerUpdateRelationship(a, b, memory)

SpecSocial == InitSocial /\ [][NextSocial]_vars

-----------------------------------------------------------------------------
(* One relationship record under a long run of events: c1's record about
   c2, of either kind, with events and memories that push the axes to both
   ends of their range *)

MaxAxisTime == 6

\* the memories of Memories and two with impacts beyond the whole range
AxisMemories ==
    Memories \cup {[type |-> "cooperation", trust |-> 150, friendship |-> 150],
                   [type |-> "werewolf", trust |-> -150, friendship |-> -150]}

InitAxes ==
    /\ characters = [id \in {"c1", "c2"} |->
                        NewCharacter(100, 100, 18 * 3600000)]
    /\ shopStock = EmptyMap
    /\ result = NoResult
    /\ gameTime = 0
    /\ minerals = EmptyMap
    /\ totalCapacity = 0
    /\ currentMiners = {}
    /\ sessions = <<>>
    /\ refreshRate = 0
    /\ lastRefresh = 0
    /\ InitNoLoop
    /\ InitNoStore
    /\ relationships = [id \in {"c1", "c2"} |-> EmptyMap]
    /\ managed = [id \in {"c1", "c2"} |-> EmptyMap]
    /\ InitNoDig
    /\ InitNoDecisions

NextAxes ==
    \/ StartConversation("c1", "c2")
    \/ \E t \in {FRIENDLY_CHAT, BETRAYAL, COOPERATION}, m \in Impacts :
          /\ gameTime < MaxAxisTime
          /\ ApplyEvent("c1", "c2", [type |-> t, impact |-> m])
    \/ \E memory \in AxisMemories :
          /\ gameTime < MaxAxisTime
          /\ ManagerUpdateRelationship("c1", "c2", memory)

SpecAxes == InitAxes /\ [][NextAxes]_vars

-----------------------------------------------------------------------------
C9_AliveOneWay ==
    [][\A id \in (DOMAIN characters) \cap (DOMAIN characters') :
          ~characters[id].isAlive => ~characters'[id].isAlive]_vars

\* C9 witness: a dead character on which eat has acted after its death
C9_Witness ==
    \E id \in DOMAIN characters :
        /\ ~characters[id].isAlive
        /\ characters[id].hunger = 30
        /\ result.op = "eat"

\* C10: once a character is dead, no operation changes its hunger or its age
C10_DeadHungerFrozen ==
    [][\A id \in (DOMAIN characters) \cap (DOMAIN characters') :
          ~characters[id].isAlive =>
              /\ characters'[id].hunger = characters[id].hunger
              /\ characters'[id].age = characters[id].age]_vars

\* C10, the part of it that is about update alone: update leaves a dead
\* character's hunger and age as they were
C10_DeadUpdateFrozen ==
    [][\A id \in (DOMAIN characters) \cap (DOMAIN characters') :
          (~characters[id].isAlive /\ result'.op = "update") =>
              /\ characters'[id].hunger = characters[id].hunger
              /\ characters'[id].age = characters[id].age]_vars

\* C4: under earnMoney, spendMoney, shop buy and shop sell, money is >= 0
C4_MoneyNonNegative ==
    \A id \in DOMAIN characters : characters[id].money >= 0

\* C4 witness: a purchase refused for lack of money, or a spend refused
C4_Witness ==
    \E id \in DOMAIN characters :
        /\ result.op = "buy" /\ ~result.success /\ result.arg = SEED_WHEAT
        /\ characters[id].money < getBuyPrice(SEED_WHEAT) * result.n
        /\ characters[id].money > 0

\* C5: a sale of q units the character holds, of an item with a sell price
\* p, lowers the held count by exactly q and raises money by exactly p * q;
\* a sale of more units than are held fails and changes neither the
\* character nor the shop stock
C5_SellAtomic ==
    [][\A id \in DOMAIN characters, t \in ItemTypes, q \in Quantities :
          (\E op \in {"sell", "shop_sell"} :
              result' = Returned(op, id, result'.success, t, q)) =>
              LET held == MapGetOr0(characters[id].inventory, t)
                  p == getSellPrice(t)
              IN  /\ (held >= q /\ p # 0) =>
                        /\ result'.success
                        /\ MapGetOr0(characters'[id].inventory, t) = held - q
                        /\ characters'[id].money = characters[id].money + p * q
                  /\ (held < q) =>
                        /\ ~result'.success
                        /\ characters' = characters
                        /\ shopStock' = shopStock]_vars

\* C5 for the sales made through Shop.sell(character, itemType, quantity) of
\* the economy design alone
C5_DesignSellAtomic ==
    [][\A id \in DOMAIN characters, t \in ItemTypes, q \in Quantities :
          (result' = Returned("sell", id, result'.success, t, q)) =>
              LET held == MapGetOr0(characters[id].inventory, t)
                  p == getSellPrice(t)
              IN  /\ (held >= q /\ p # 0) =>
                        /\ result'.success
                        /\ MapGetOr0(characters'[id].inventory, t) = held - q
                        /\ characters'[id].money = characters[id].money + p * q
                  /\ (held < q) =>
                        /\ ~result'.success
                        /\ characters' = characters
                        /\ shopStock' = shopStock]_vars

\* C5 witness: a sale of 3 units at 15 each has gone through the design's
\* Shop.sell
C5_Witness ==
    \E id \in DOMAIN characters :
        /\ result = Returned("sell", id, TRUE, CROP_WHEAT, 3)
        /\ characters[id].money = 45
        /\ MapGetOr0(shopStock, CROP_WHEAT) = 3

\* C5 witness of the failing case: the design's Shop.sell has refused a sale
\* of 3 units with 1 held
C5_WitnessRefused ==
    \E id \in DOMAIN characters :
        /\ result = Returned("sell", id, FALSE, CROP_WHEAT, 3)
        /\ MapGetOr0(characters[id].inventory, CROP_WHEAT) = 1

\* the sessions that have ended with a mineral
FoundSessions == {n \in 1..Len(sessions) : sessions[n].state = "found"}

\* C2 (the part about double spending): no count of the pool is below 0 and
\* the units granted never exceed the units the pool held
C2_NoDoubleSpend ==
    /\ \A id \in DOMAIN minerals : minerals[id] >= 0
    /\ Cardinality(FoundSessions) <= totalCapacity
    /\ Cardinality(FoundSessions) + getTotalResources(minerals) = totalCapacity

\* C2: two agents that both pass the availability check of a pool holding
\* exactly 1 unit before either completes its draw: exactly one is granted
\* the unit and the other ends depleted; no count is below 0 and no more
\* units are granted than the pool held
C2_ExactlyOneGranted ==
    /\ C2_NoDoubleSpend
    /\ (/\ totalCapacity = 1
        /\ Len(sessions) = 2
        /\ sessions[1].characterId # sessions[2].characterId
        /\ sessions[2].startTime < sessions[1].startTime + sessions[1].duration
        /\ sessions[1].state # "mining"
        /\ sessions[2].state # "mining")
       => \E i, j \in 1..2 :
             /\ i # j
             /\ sessions[i].state = "found"
             /\ sessions[j].state = "depleted"

\* C2 witness: of two concurrent sessions on a pool of 1 unit, one was
\* granted the unit and the other ended depleted
C2_Witness ==
    /\ totalCapacity = 1
    /\ Len(sessions) = 2
    /\ sessions[1].characterId # sessions[2].characterId
    /\ sessions[2].startTime < sessions[1].startTime + sessions[1].duration
    /\ sessions[1].state = "found"
    /\ sessions[2].state = "depleted"
    /\ getTotalResources(minerals) = 0

-----------------------------------------------------------------------------
\* C1: at all times, for every agent id, at most one decision request is in
\* flight (dispatched by processQueue and not yet settled), whatever the
\* interleaving of scheduler updates, enqueues, dispatches and responses
C1_OneInFlightPerAgent ==
    \A id \in {CharacterOrder[i] : i \in 1..Len(CharacterOrder)} :
        InFlightCount(id) <= 1

\* C1 witness: a request is still in flight after more than the decision
\* interval, and its agent was enqueued again in the meantime
C1_Witness ==
    \E request \in DOMAIN inflight :
        /\ gameTime - request.since >= decisionInterval
        /\ MapGetOr0(cooldowns, request.characterId)
               > request.since + decisionInterval
        /\ InFlightCount(request.characterId) = 1
        /\ queue = <<>>

\* a response that parses and names an action of ActionType
WellFormed(response) ==
    LET json == JSON_parse(response)
    IN  json.ok /\ json.type = "object" /\ json.action \in ActionType

\* C6: whenever decide has just returned the decision parsed from a response
\* that is not JSON or violates the schema (no action, or an action outside
\* ActionType), that decision's action is a member of ActionType
C6_ValidatorFallback ==
    (result.op = "decide" /\ result.success /\ ~WellFormed(result.arg))
        => result.decision.action \in ActionType

\* C6, the part that holds: a response JSON.parse rejects, and the JSON text
\* null, give the default decision
C6_UnparseableFallback ==
    (result.op = "decide" /\ result.success
        /\ (~JSON_parse(result.arg).ok \/ JSON_parse(result.arg).type = "null"))
        => result.decision = DefaultDecision

\* C6: a decide has returned the decision of a response without action
C6_Witness ==
    result.op = "decide" /\ result.success /\ result.arg = R_NO_ACTION

\* C7: the promise decide returns is never rejected
C7_NeverRejects == result.op = "decide" => result.success

\* C7, the part that holds: when a request fails, process() goes on with the
\* next request of the queue
C7_LoopContinues ==
    [][(executing # NoRequest /\ requests # <<>>
          /\ result'.op = "decide" /\ ~result'.success /\ result' # result)
        => (executing' # NoRequest /\ Len(requests') = Len(requests) - 1)]_vars

\* C7: a provider error has reached the caller of decide
C7_Witness == result.op = "decide" /\ ~result.success

\* the character of the awaited request has died or has been removed
ExecutingForGone ==
    /\ executing # NoRequest
    /\ IF executing.characterId \in DOMAIN characters
       THEN ~characters[executing.characterId].isAlive
       ELSE TRUE

\* C8: when the response arrives for a request whose character has died or
\* been removed meanwhile, no character and no context changes
C8_LateResponseDiscarded ==
    [][(ExecutingForGone
          /\ (Len(requests') < Len(requests) \/ executing' = NoRequest))
        => (contexts' = contexts /\ characters' = characters)]_vars

\* C8, the part that holds: after such a response process() goes on with
\* the next request of the queue
C8_DispatcherGoesOn ==
    [][(ExecutingForGone /\ requests # <<>> /\ Len(requests') < Len(requests))
        => executing' # NoRequest]_vars

\* C8: a decision has been recorded for a character that is dead or removed
C8_Witness ==
    /\ result.op = "decide" /\ result.success
    /\ IF result.id \in DOMAIN characters
       THEN ~characters[result.id].isAlive ELSE TRUE

\* C2 for MiningSystem.dig: a dig that ends its wait with the mine empty
\* fails and leaves the character and the mine alone, one that ends it with
\* units left is granted exactly one unit, and the count never goes below 0
C2_DigOneUnitOneGrant ==
    [][(Len(digs') < Len(digs)) =>
          /\ currentResources' >= 0
          /\ IF currentResources = 0
             THEN /\ ~result'.success
                  /\ characters' = characters
                  /\ currentResources' = 0
             ELSE /\ result'.success
                  /\ currentResources' = currentResources - 1]_vars

\* C2 for MiningSystem.dig: two digs passed canMine with one unit left, one
\* was granted it and the other has failed
C2_DigWitness ==
    /\ maxResources = 1 /\ currentResources = 0 /\ lastRefreshTime = 0
    /\ digs = <<>>
    /\ result = Returned("dig", "c2", FALSE, "mining failed", 0)
    /\ MapGetOr0(miningCooldown, "c1") = DigStartTime

-----------------------------------------------------------------------------
\* the session whose draw the step from this state to the next has made
DrawnSessions ==
    {n \in 1..Len(sessions) :
        sessions[n].state = "mining" /\ sessions'[n].state # "mining"}

\* C11: without a refresh a pool grants one unit for each draw while it has
\* units left, each grant lowering the count of the granted kind by one, and
\* a draw ends depleted and changes no count only once the pool is empty
C11_DrawsUntilDepleted ==
    [][\A n \in DrawnSessions :
          IF getTotalResources(minerals) > 0
          THEN /\ sessions'[n].state = "found"
               /\ sessions'[n].result \in MineralIds
               /\ minerals[sessions'[n].result] > 0
               /\ minerals' = [minerals EXCEPT ![sessions'[n].result] = @ - 1]
          ELSE /\ sessions'[n].state = "depleted"
               /\ minerals' = minerals]_vars

\* C11, the part that holds: a draw never grants a kind whose count is 0,
\* and a draw that ends depleted leaves every count as it was
C11_NoGrantOfExhaustedKind ==
    [][\A n \in DrawnSessions :
          IF sessions'[n].state = "found"
          THEN /\ minerals[sessions'[n].result] > 0
               /\ minerals' = [minerals EXCEPT ![sessions'[n].result] = @ - 1]
          ELSE minerals' = minerals]_vars

\* C11 witness: a pool that held 2 units has granted both and the third
\* draw has ended depleted
C11_Witness ==
    /\ totalCapacity = 2
    /\ Len(sessions) = 3
    /\ sessions[1].state = "found"
    /\ sessions[2].state = "found"
    /\ sessions[3].state = "depleted"
    /\ sessions[3].startTime >= sessions[2].startTime + sessions[2].duration
    /\ getTotalResources(minerals) = 0

-----------------------------------------------------------------------------
C12_MineWithinMax ==
    currentResources >= 0 /\ currentResources <= maxResources

-----------------------------------------------------------------------------
-----------------------------------------------------------------------------
\* the step from this state to the next has popped a request for dispatch:
\* process() has started on an idle queue or has gone on to its next turn
RequestPopped ==
    \/ Len(requests') < Len(requests)
    \/ ~requestProcessing /\ requestProcessing'

-----------------------------------------------------------------------------
\* C15: every request that leaves the queue is dispatched, so that none is
\* dropped: in a step that enqueues nothing, the promises in flight grow by
\* the number of requests the queue has lost
C15_NoRequestDropped ==
    [][(cooldowns' = cooldowns /\ Len(queue') < Len(queue))
        => SumBag(inflight', DOMAIN inflight')
             = SumBag(inflight, DOMAIN inflight) + Len(queue) - Len(queue')]_vars

\* C15, the part that holds: while all the slots are busy processQueue takes
\* nothing from the queue, so a request that arrives then stays pending
C15_BusySlotsKeepRequests ==
    [][(Cardinality(processing) = concurrency /\ cooldowns' = cooldowns)
        => Len(queue') >= Len(queue)]_vars

\* C15 witness: a request is pending for a character that has one in flight
C15_Witness ==
    \E i \in 1..Len(queue) :
        /\ queue[i].characterId \in processing
        /\ InFlightCount(queue[i].characterId) = 1

-----------------------------------------------------------------------------
\* the characters AIScheduler.update(gameTime) enqueues a request for when it
\* runs in the current state
EnqueuedByUpdate ==
    LET enq == AIScheduler_enqueueAll(characters, 1, queue, cooldowns,
                                      gameTime).queue
    IN  {enq[i].characterId : i \in (Len(queue) + 1)..Len(enq)}

\* C16: the scheduler enqueues a decision request for an agent at time now
\* only if the agent's currentAction is null and now is not before the
\* agent's cooldown expiry
C16_EnqueueOnlyWhenEligible ==
    \A id \in EnqueuedByUpdate :
        /\ characters[id].currentAction = "null"
        /\ gameTime >= MapGetOr0(cooldowns, id)

\* C16 witness: update has just enqueued and dispatched a request for an idle
\* character, whose cooldown now runs, and has passed over a walking one;
\* run again at the same time it enqueues nothing
C16_Witness ==
    /\ EnqueuedByUpdate = {}
    /\ \E id, other \in DOMAIN characters :
          /\ MapHas(inflight, [characterId |-> id, type |-> NEXT_ACTION,
                               character |-> TRUE, since |-> gameTime])
          /\ MapGetOr0(cooldowns, id) = gameTime + decisionInterval
          /\ characters[id].currentAction = "null"
          /\ characters[other].currentAction = "walking"
          /\ ~MapHas(cooldowns, other)

\* C16 on the steps of update: a cooldown is restarted, which update does
\* exactly for the characters it enqueues, only for an idle character whose
\* cooldown has expired
C16_CooldownRestartedOnlyWhenEligible ==
    [][\A id \in DOMAIN characters :
          MapGetOr0(cooldowns', id) # MapGetOr0(cooldowns, id)
          => /\ characters[id].currentAction = "null"
             /\ gameTime >= MapGetOr0(cooldowns, id)
             /\ MapGetOr0(cooldowns', id) = gameTime + decisionInterval]_vars

-----------------------------------------------------------------------------
\* C17: no NEXT_ACTION request is dispatched for a registered agent whose
\* isAlive is false
C17_NoDispatchForDead ==
    [][\A r \in DOMAIN inflight' :
          (/\ ~MapHas(inflight, r)
           /\ r.type = NEXT_ACTION
           /\ r.characterId \in DOMAIN characters)
          => characters[r.characterId].isAlive]_vars

-----------------------------------------------------------------------------
\* LLMFallbackSystem.ruleBasedFallback(character): the action of the
\* decision it returns
ruleBasedFallback(c) ==
    IF c.hunger < 30 THEN "eat_food"
    ELSE IF c.money < 20 THEN "go_fishing"
    ELSE "idle"

\* the step from this state to the next settles the awaited request
RequestSettles ==
    /\ executing # NoRequest
    /\ executing' = NoRequest \/ Len(requests') < Len(requests)

\* C18: when the provider fails the request of a living agent, the agent
\* receives the rule-based fallback decision in its place, so that with a
\* provider that always fails every decision is a fallback decision
C18_FailureGivesFallback ==
    [][(/\ RequestSettles
        /\ result'.arg = PROVIDER_ERROR
        /\ executing.characterId \in DOMAIN characters
        /\ characters[executing.characterId].isAlive)
        => /\ result'.decision.action
                = ruleBasedFallback(characters[executing.characterId])
           /\ Len(DecisionsOf(executing.characterId)')
                = Len(DecisionsOf(executing.characterId)) + 1]_vars

\* C18, the part that holds: the clock and the scheduler never wait for the
\* provider, a frame can start whatever is in flight
C18_TickNeverBlocked ==
    /\ ENABLED SchedulerUpdate
    /\ (gameTime + SchedulerStep <= MaxSchedulerTime) => ENABLED SchedulerTick

\* C18 witness: every call of a living agent has failed and it has received
\* no decision at all
C18_Witness ==
    /\ result.op = "decide"
    /\ result.arg = PROVIDER_ERROR
    /\ result.id \in DOMAIN characters
    /\ characters[result.id].isAlive
    /\ DecisionsOf(result.id) = <<>>
    /\ PendingFor(result.id) = 0

-----------------------------------------------------------------------------
\* the ids of all the characters of the model
CharacterIds == {CharacterOrder[i] : i \in 1..Len(CharacterOrder)}

\* C19: a dispatched request never occupies its slot and its agent's
\* in-flight marker for ever, even if the provider never answers: the id of
\* every agent in processing eventually leaves it
C19_SilentCallReleased ==
    \A id \in CharacterIds : (id \in processing) ~> (id \notin processing)

\* C19 witness: a request dispatched at time 0 still holds its slot and its
\* agent two decision intervals later
C19_Witness ==
    /\ gameTime = 2 * decisionInterval
    /\ \E r \in DOMAIN inflight :
          /\ r.since = 0
          /\ r.characterId \in processing

-----------------------------------------------------------------------------
\* the step from this state to the next applies an event or a memory to one
\* direction, from result'.id to result'.arg
DirectedUpdate ==
    /\ result'.op \in {"Relationship.update", "updateRelationship"}
    /\ relationships' # relationships \/ managed' # managed

\* C20: applying an event from A to B changes only the record that A holds
\* about B: the record that B holds about A and the records of every other
\* pair stay as they were, present or absent
C20_OnlyDirectedRecordChanges ==
    [][DirectedUpdate =>
          /\ \A p \in SocialPairs :
                p # <<result'.id, result'.arg>>
                => /\ RecordOf(relationships', p[1], p[2])
                        = RecordOf(relationships, p[1], p[2])
                   /\ RecordOf(managed', p[1], p[2])
                        = RecordOf(managed, p[1], p[2])
          /\ \/ RecordOf(relationships', result'.id, result'.arg)
                  # RecordOf(relationships, result'.id, result'.arg)
             \/ RecordOf(managed', result'.id, result'.arg)
                  # RecordOf(managed, result'.id, result'.arg)]_vars

\* C20 witness: c1 and c2 hold a record about each other, an event has been
\* applied from c1 to c2, and the record c2 holds about c1 is as created
C20_Witness ==
    /\ result = Returned("Relationship.update", "c1", TRUE, "c2", 0)
    /\ HasRecord(relationships, "c1", "c2")
    /\ HasRecord(relationships, "c2", "c1")
    /\ relationships["c1"]["c2"].interactions = 1
    /\ relationships["c2"]["c1"] = NewRelationship("c1")

-----------------------------------------------------------------------------
\* C21: after any sequence of relationship events, trust and affection of
\* every Relationship record, and trust and friendship of every record
\* RelationshipManager keeps, are within [-1, 1] (in hundredths)
C21_AxesWithinRange ==
    \A p \in SocialPairs :
        /\ HasRecord(relationships, p[1], p[2])
           => /\ relationships[p[1]][p[2]].trust \in -100..100
              /\ relationships[p[1]][p[2]].affection \in -100..100
        /\ HasRecord(managed, p[1], p[2])
           => /\ managed[p[1]][p[2]].trust \in -100..100
              /\ managed[p[1]][p[2]].friendship \in -100..100

\* C21 witness: four betrayals in a row have taken trust to the lower end,
\* the last one asking for less than -1
C21_Witness ==
    /\ HasRecord(relationships, "c1", "c2")
    /\ relationships["c1"]["c2"].interactions = 4
    /\ relationships["c1"]["c2"].trust = -100
    /\ relationships["c1"]["c2"].affection = -80

\* C21 for RelationshipManager alone: its axes stay within [0, 1]
C21_ManagedWithinUnit ==
    \A p \in SocialPairs :
        HasRecord(managed, p[1], p[2])
        => /\ managed[p[1]][p[2]].trust \in 0..100
           /\ managed[p[1]][p[2]].friendship \in 0..100

-----------------------------------------------------------------------------
\* the steps of the three eat operations: Character.eat(hungerRestore),
\* Character.eat(item) of the design and eatFood
EatOps == {"eat", "eatItem", "eatFood"}

\* C22: an eat that raises hunger has taken exactly one unit of some item
\* out of the inventory (an eat of something not held changes nothing)
C22_EatTakesOneUnit ==
    [][(/\ result'.op \in EatOps
        /\ characters'[result'.id].hunger # characters[result'.id].hunger)
       => \E t \in ItemTypes :
             /\ MapGetOr0(characters'[result'.id].inventory, t)
                  = MapGetOr0(characters[result'.id].inventory, t) - 1
             /\ \A u \in ItemTypes \ {t} :
                   MapGetOr0(characters'[result'.id].inventory, u)
                     = MapGetOr0(characters[result'.id].inventory, u)]_vars

\* C22 witness: Character.eat(30) has taken a character that holds nothing
\* from 40 to 70
C22_Witness ==
    /\ result.op = "eat"
    /\ result.n = 30
    /\ characters["c1"].hunger = 70
    /\ characters["c1"].inventory = EmptyMap

\* C22 for Character.eat(item) of the design alone: NotEdible and
\* InsufficientInventory change nothing, a success takes one unit and sets
\* hunger to min(100, hunger + restore)
C22_DesignEatAsSpecified ==
    [][result'.op = "eatItem"
       => LET c == characters[result'.id]
              held == \E t \in ItemTypes :
                         /\ MapGetOr0(c.inventory, t) >= 1
                         /\ MapGetOr0(characters'[result'.id].inventory, t)
                              = MapGetOr0(c.inventory, t) - 1
          IN  /\ result'.n = 0
                 => /\ ~result'.success
                    /\ result'.arg = "NotEdible"
                    /\ characters' = characters
              /\ (result'.n # 0 /\ ~result'.success)
                 => /\ result'.arg = "InsufficientInventory"
                    /\ characters' = characters
              /\ result'.success
                 => /\ held
                    /\ characters'[result'.id].hunger
                         = Min(100, c.hunger + result'.n)]_vars

-----------------------------------------------------------------------------
\* the steps of the two relocate operations: Character.moveTo and
\* Character.move of the design, with the target in result.arg
MoveOps == {"moveTo", "move"}

\* C23: a relocate to the current location reports success and changes
\* nothing
C23_RedundantMoveSucceeds ==
    [][(/\ result'.op \in MoveOps
        /\ characters[result'.id].location = result'.arg)
       => /\ result'.success
          /\ characters' = characters]_vars

\* C23 witness: Character.move(HOME) of a character at HOME has reported
\* a failure
C23_Witness ==
    /\ result.op = "move"
    /\ result.arg = HOME
    /\ characters["c1"].location = HOME
    /\ ~result.success

\* C23, the effect alone: after a relocate the location is the target and
\* nothing else of the character has changed
C23_MoveSetsLocation ==
    [][result'.op \in MoveOps
       => characters' = [characters EXCEPT
                            ![result'.id].location = result'.arg]]_vars

-----------------------------------------------------------------------------
\* C24: every entry of every inventory has a count of at least 1
C24_EntriesPositive ==
    \A id \in DOMAIN characters :
        \A t \in DOMAIN characters[id].inventory :
            characters[id].inventory[t] >= 1

\* C24 witness: addItem(CROP_WHEAT, 0) has left an entry for an item the
\* character holds no unit of
C24_Witness ==
    /\ result.op = "addItem"
    /\ MapHas(characters["c1"].inventory, CROP_WHEAT)
    /\ characters["c1"].inventory[CROP_WHEAT] = 0

\* C24 for removeItem alone: a remove never leaves an entry without units
C24_RemoveLeavesNoEmptyEntry ==
    [][(/\ result'.op = "removeItem"
        /\ result'.success
        /\ MapHas(characters'[result'.id].inventory, result'.arg))
       => characters'[result'.id].inventory[result'.arg] >= 1]_vars

-----------------------------------------------------------------------------
\* C25: removeItem for more units than are held, and spendMoney for more
\* than the character's money, return false and leave the character, its
\* inventory and money included, as it was
C25_RefusalsChangeNothing ==
    [][/\ (/\ result'.op = "removeItem"
           /\ MapGetOr0(characters[result'.id].inventory, result'.arg)
                < result'.n)
          => /\ ~result'.success
             /\ characters' = characters
       /\ \A a \in Amounts :
             (/\ result'.op = "spendMoney"
              /\ a > characters[result'.id].money
              /\ SpendMoney(result'.id, a))
             => /\ ~result'.success
                /\ characters' = characters]_vars

\* C25 witness: removeItem of three units from a character holding one has
\* been refused
C25_Witness ==
    /\ result.op = "removeItem"
    /\ result.n = 3
    /\ ~result.success
    /\ MapGetOr0(characters["c1"].inventory, result.arg) = 1

\* C25 witness for money: spendMoney of more than is held has been refused
C25_WitnessMoney ==
    /\ result.op = "spendMoney"
    /\ ~result.success
    /\ characters["c1"].money = 100

-----------------------------------------------------------------------------
\* C26: an updateMining that fails because the session's character is gone
\* fails as a unit: pool, sessions, miners and characters are as before
C26_GoneAgentNoPartialMutation ==
    [][(/\ result'.op = "updateMining"
        /\ ~MapHas(characters, result'.id)
        /\ \E n \in 1..Len(sessions) :
              /\ sessions[n].characterId = result'.id
              /\ sessions[n].state = "mining"
              /\ gameTime - sessions[n].startTime >= sessions[n].duration)
       => /\ minerals' = minerals
          /\ sessions' = sessions
          /\ currentMiners' = currentMiners
          /\ characters' = characters]_vars

\* C26 witness: the session of a removed character has ended as found, a
\* unit has left the pool, and the character is still counted as a miner
C26_Witness ==
    /\ result.op = "updateMining"
    /\ result.arg = "TypeError"
    /\ ~MapHas(characters, result.id)
    /\ result.id \in currentMiners
    /\ getTotalResources(minerals) < totalCapacity
    /\ \E n \in 1..Len(sessions) :
          sessions[n].characterId = result.id /\ sessions[n].state = "found"

\* C26 for startMining: a refused startMining (site full or pool empty)
\* leaves the character with no current action
C26_RefusedAgentIdle ==
    [][(/\ result'.op = "startMining"
        /\ ~result'.success)
       => characters'[result'.id].currentAction = "null"]_vars

\* C26, the part that holds: a refused startMining changes neither the
\* mine nor any character
C26_RefusalChangesNothing ==
    [][(/\ result'.op = "startMining"
        /\ ~result'.success)
       => /\ minerals' = minerals
          /\ sessions' = sessions
          /\ currentMiners' = currentMiners
          /\ characters' = characters]_vars

-----------------------------------------------------------------------------
\* C27: a purchase of q units succeeds exactly when the item has a buy
\* price p and the character's money is at least p * q; a success lowers
\* money by exactly p * q and raises the held count by exactly q; a failure
\* changes neither; the shop's stock is never changed by buy
C27_BuyAsSpecified ==
    [][\A id \in DOMAIN characters, t \in ItemTypes, q \in Quantities :
          (\E op \in {"buy", "shop_buy"} :
              result' = Returned(op, id, result'.success, t, q)) =>
              LET held == MapGetOr0(characters[id].inventory, t)
                  p == getBuyPrice(t)
              IN  /\ result'.success <=> (p # 0 /\ characters[id].money >= p * q)
                  /\ result'.success =>
                        /\ characters'[id].money = characters[id].money - p * q
                        /\ MapGetOr0(characters'[id].inventory, t) = held + q
                  /\ ~result'.success => characters' = characters
                  /\ shopStock' = shopStock]_vars

\* C27 for the purchases made through Shop.buy(character, itemType,
\* quantity) of the economy design alone
C27_DesignBuyAsSpecified ==
    [][\A id \in DOMAIN characters, t \in ItemTypes, q \in Quantities :
          (result' = Returned("buy", id, result'.success, t, q)) =>
              LET held == MapGetOr0(characters[id].inventory, t)
                  p == getBuyPrice(t)
              IN  /\ result'.success <=> (p # 0 /\ characters[id].money >= p * q)
                  /\ result'.success =>
                        /\ characters'[id].money = characters[id].money - p * q
                        /\ MapGetOr0(characters'[id].inventory, t) = held + q
                  /\ ~result'.success => characters' = characters
                  /\ shopStock' = shopStock]_vars

\* C27 witness: Shop.buy of the Shop class has reported the purchase of 3
\* seeds as a success while the character has its 100 coins and no seeds
C27_Witness ==
    \E id \in DOMAIN characters :
        /\ result = Returned("shop_buy", id, TRUE, SEED_WHEAT, 3)
        /\ characters[id].money = 100
        /\ ~MapHas(characters[id].inventory, SEED_WHEAT)

\* C27 witness of the design's buy: 3 seeds at 5 each have been bought
C27_WitnessDesign ==
    \E id \in DOMAIN characters :
        /\ result = Returned("buy", id, TRUE, SEED_WHEAT, 3)
        /\ characters[id].money = 85
        /\ MapGetOr0(characters[id].inventory, SEED_WHEAT) = 3

-----------------------------------------------------------------------------
(* Game: the game loop of the Game class and the two buttons of main.ts.
   An animation frame runs every callback requestAnimationFrame holds; a
   callback requested while they run belongs to the next frame. *)

MaxFrames == 4
MaxPending == 3

\* the time between two animation frames, in ms
FrameTime == 16

\* the Game object: its fields, the callbacks it has requested and the calls
\* of update it has made
TheGame ==
    [isRunning |-> isRunning, isPaused |-> isPaused,
     lastFrameTime |-> lastFrameTime, gameTime |-> gameTime,
     pendingFrames |-> pendingFrames, updates |-> 0]

\* Game.gameLoop at performance.now() = t
gameLoop(g, t) ==
    IF ~g.isRunning \/ g.isPaused THEN g
    ELSE [g EXCEPT !.gameTime = @ + (t - g.lastFrameTime),
                   !.lastFrameTime = t,
                   !.updates = @ + 1,
                   !.pendingFrames = @ + 1]

\* Game.start at performance.now() = t
Game_start(g, t) ==
    IF g.isRunning THEN g
    ELSE gameLoop([g EXCEPT !.isRunning = TRUE, !.isPaused = FALSE,
                            !.lastFrameTime = t], t)

\* Game.pause
Game_pause(g) == [g EXCEPT !.isPaused = TRUE]

\* Game.resume without "this.lastFrameTime = performance.now()"
Game_resume_stale(g, t) ==
    IF ~g.isPaused THEN g
    ELSE gameLoop([g EXCEPT !.isPaused = FALSE], t)

\* Game.resume at performance.now() = t
Game_resume(g, t) ==
    IF ~g.isPaused THEN g
    ELSE gameLoop([g EXCEPT !.isPaused = FALSE, !.lastFrameTime = t], t)

\* Game.destroy
Game_destroy(g) == [g EXCEPT !.isRunning = FALSE, !.isPaused = FALSE]

\* the k callbacks of one animation frame, one after the other
RECURSIVE runCallbacks(_, _, _)
runCallbacks(g, k, t) ==
    IF k = 0 THEN g ELSE runCallbacks(gameLoop(g, t), k - 1, t)

\* the fields of the Game object after an operation
SetGame(g) ==
    /\ isRunning' = g.isRunning
    /\ isPaused' = g.isPaused
    /\ lastFrameTime' = g.lastFrameTime
    /\ gameTime' = g.gameTime
    /\ pendingFrames' = g.pendingFrames

gameFrame == <<characters, shopVars, mineVars, refreshVars, socialVars, storeVars,
               digVars, schedulerVars, engineVars>>

\* the click handler of start-btn: game.start(); updateStatus
ClickStart ==
    /\ Game_start(TheGame, performanceNow).pendingFrames <= MaxPending
    /\ SetGame(Game_start(TheGame, performanceNow))
    /\ status' = "running"
    /\ result' = Returned("start", "game", TRUE, "null", 0)
    /\ UNCHANGED <<gameFrame, performanceNow, frameUpdates>>

\* the click handler of pause-btn: game.pause(); updateStatus
ClickPause ==
    /\ SetGame(Game_pause(TheGame))
    /\ status' = "paused"
    /\ result' = Returned("pause", "game", TRUE, "null", 0)
    /\ UNCHANGED <<gameFrame, performanceNow, frameUpdates>>

\* game.resume()
Resume ==
    /\ Game_resume(TheGame, performanceNow).pendingFrames <= MaxPending
    /\ SetGame(Game_resume(TheGame, performanceNow))
    /\ result' = Returned("resume", "game", TRUE, "null", 0)
    /\ UNCHANGED <<gameFrame, performanceNow, frameUpdates, status>>

\* game.destroy()
Destroy ==
    /\ SetGame(Game_destroy(TheGame))
    /\ result' = Returned("destroy", "game", TRUE, "null", 0)
    /\ UNCHANGED <<gameFrame, performanceNow, frameUpdates, status>>

\* the next animation frame: the browser runs the callbacks it holds
AnimationFrame ==
    /\ performanceNow < MaxFrames * FrameTime
    /\ LET t == performanceNow + FrameTime
           g == runCallbacks([TheGame EXCEPT !.pendingFrames = 0],
                             pendingFrames, t)
       IN  /\ performanceNow' = t
           /\ SetGame(g)
           /\ frameUpdates' = g.updates
           /\ result' = Returned("frame", "game", TRUE, "null", g.updates)
    /\ UNCHANGED <<gameFrame, status>>

InitGame ==
    /\ characters = EmptyMap
    /\ shopStock = EmptyMap
    /\ result = NoResult
    /\ InitNoMine
    /\ InitNoDecisions

NextGame ==
    \/ ClickStart
    \/ ClickPause
    \/ Resume
    \/ Destroy
    \/ AnimationFrame

SpecGame == InitGame /\ [][NextGame]_vars

-----------------------------------------------------------------------------
\* C28: at most one game-loop callback chain is active: a running game
\* holds at most one frame callback, and an animation frame runs update at
\* most once
C28_OneLoopChain ==
    /\ (isRunning /\ ~isPaused) => pendingFrames <= 1
    /\ frameUpdates <= 1

\* C28 witness: one animation frame has run update twice
C28_Witness ==
    /\ result.op = "frame"
    /\ frameUpdates = 2
    /\ pendingFrames = 2

\* C28, what holds of the loop: a game that is paused or not running runs
\* no update in a frame and requests no further frame
C28_StoppedLoopDies ==
    [][(result'.op = "frame" /\ (~isRunning \/ isPaused))
       => (frameUpdates' = 0 /\ pendingFrames' = 0
           /\ gameTime' = gameTime)]_vars

\* C29: a click on the start button after pause() leaves the loop running:
\* isRunning, not isPaused, and a frame callback requested
C29_StartAfterPauseRuns ==
    [][(result'.op = "start" /\ isPaused)
       => (isRunning' /\ ~isPaused' /\ pendingFrames' >= 1)]_vars

\* C29 witness: the status element shows the game running after start,
\* pause, start, while the game is paused, and a frame has passed without
\* game time advancing
C29_Witness ==
    /\ status = "running"
    /\ isRunning
    /\ isPaused
    /\ result.op = "frame"
    /\ frameUpdates = 0
    /\ pendingFrames = 0

\* C29, the first click: start() of a game that is not running starts the
\* loop
C29_FirstStartRuns ==
    [][(result'.op = "start" /\ ~isRunning)
       => (isRunning' /\ ~isPaused' /\ pendingFrames' >= 1)]_vars

-----------------------------------------------------------------------------
\* C30: no character has two dig calls in their mining wait at once
C30_NoOverlappingDigs ==
    \A m, n \in 1..Len(digs) :
        digs[m].characterId = digs[n].characterId => m = n

\* C30 witness: two digs of c1 issued at the same time have both ended
\* with a unit, so c1 holds two units obtained within one MINING_TIME
C30_Witness ==
    /\ maxResources = 2
    /\ currentResources = 0
    /\ lastRefreshTime = 0
    /\ digs = <<>>
    /\ gameTime = DigStartTime + MINING_TIME
    /\ MapGetOr0(miningCooldown, "c1") = DigStartTime
    /\ ~MapHas(miningCooldown, "c2")
    /\ \E t \in DigMinerals : MapGetOr0(characters["c1"].inventory, t) = 2

\* C30, why the cooldown check rejects nothing: the time it stores is the
\* one taken before the wait, so it is at least MINING_TIME old as soon as
\* it is stored
C30_CooldownNeverBinds ==
    /\ \A id \in DOMAIN miningCooldown :
          gameTime - miningCooldown[id] >= MINING_TIME
    /\ result.arg # "mining, please wait"

-----------------------------------------------------------------------------
(* The scheduler with a clock that stops inside the decision interval *)

MaxWindowTime == 120

\* the game time between two calls of AIScheduler.update, in seconds: half
\* a decisionInterval
WindowStep == 30

\* the game clock advances to the next call of update
WindowTick ==
    /\ gameTime + WindowStep <= MaxWindowTime
    /\ gameTime' = gameTime + WindowStep
    /\ UNCHANGED <<characters, shopVars, result, mineVars, refreshVars,
                   socialVars, loopVars, storeVars, digVars, schedulerVars, engineVars>>

NextWindow ==
    \/ SchedulerUpdate
    \/ \E request \in DOMAIN inflight, fulfilled \in BOOLEAN :
          Settle(request, fulfilled)
    \/ \E id \in DOMAIN characters : WalkTo(id)
    \/ \E id \in DOMAIN characters : UpdateMovement(id)
    \/ WindowTick

SpecWindow == InitScheduler /\ [][NextWindow]_vars

\* C31: the update that enqueues a request for an agent at time t sets that
\* agent's cooldown to t + decisionInterval in the same step, whether or not
\* the request is answered; it enqueues for an agent only when at least
\* decisionInterval has passed since it last did, and run again in the state
\* it leaves it enqueues nothing for that agent
C31_CooldownSetOnEnqueue ==
    [][SchedulerUpdate
       => \A id \in EnqueuedByUpdate :
             /\ MapGetOr0(cooldowns', id) = gameTime + decisionInterval
             /\ MapHas(cooldowns, id)
                => gameTime - (cooldowns[id] - decisionInterval)
                      >= decisionInterval
             /\ id \notin EnqueuedByUpdate']_vars

\* C31 witness: a request dispatched half an interval ago has not been
\* answered, its agent is idle, the cooldown set at the dispatch still runs
\* and update enqueues nothing for the agent
C31_Witness ==
    \E request \in DOMAIN inflight :
        /\ request.type = NEXT_ACTION
        /\ request.since = gameTime - WindowStep
        /\ characters[request.characterId].currentAction = "null"
        /\ MapGetOr0(cooldowns, request.characterId)
              = request.since + decisionInterval
        /\ request.characterId \notin EnqueuedByUpdate

\* C31 in every state: update enqueues nothing for an agent whose cooldown
\* has not expired, in flight or not
C31_NoEnqueueWithinCooldown ==
    \A id \in DOMAIN cooldowns :
        gameTime < cooldowns[id] => id \notin EnqueuedByUpdate

-----------------------------------------------------------------------------
\* C32: a refresh with at least one full interval elapsed advances the time
\* of the last refresh by exactly the full intervals elapsed, and a refresh
\* with less than one interval elapsed changes neither counts nor that time
C32_AdvancesByFullIntervals ==
    [][result'.op = "refreshPool"
       => LET elapsed == gameTime - lastRefresh
          IN  IF elapsed >= DayLength
              THEN lastRefresh'
                     = lastRefresh + (elapsed \div DayLength) * DayLength
              ELSE lastRefresh' = lastRefresh /\ minerals' = minerals]_vars

\* C32 witness: refreshPool called a day and a half after the last refresh
\* has set lastRefresh to the time of the call, half a day off the grid of
\* whole intervals
C32_Witness ==
    /\ result = Returned("refreshPool", "null", TRUE,
                         "resource_pool_refreshed", 0)
    /\ gameTime = 3
    /\ lastRefresh = 3

\* C32 for Mine.update of the mining system: lastRefreshTime moves by whole
\* intervals only, never passes the current time, and a call with less than
\* one interval elapsed changes nothing
C32_MineUpdateByFullIntervals ==
    [][/\ lastRefreshTime' # lastRefreshTime
          => /\ gameTime - lastRefreshTime >= REFRESH_INTERVAL
             /\ lastRefreshTime'
                  = lastRefreshTime
                    + ((gameTime - lastRefreshTime) \div REFRESH_INTERVAL)
                      * REFRESH_INTERVAL
       /\ lastRefreshTime' % REFRESH_INTERVAL = lastRefreshTime % REFRESH_INTERVAL
       /\ lastRefreshTime' <= gameTime'
       /\ (MineUpdate /\ gameTime - lastRefreshTime < REFRESH_INTERVAL)
          => UNCHANGED <<currentResources, lastRefreshTime>>]_vars

\* C32 witness for Mine.update: a call 45 s after a full interval has left
\* lastRefreshTime on the interval, behind the current time
C32_MineWitness ==
    /\ lastRefreshTime = REFRESH_INTERVAL
    /\ gameTime = REFRESH_INTERVAL + MINING_TIME

-----------------------------------------------------------------------------
\* C33: a draw never grants a unit of a kind whose count is 0, and a draw
\* from a pool whose every count is 0 ends depleted and changes no count
C33_NoGrantFromEmptyKind ==
    [][\A n \in DrawnSessions :
          /\ sessions'[n].state = "found"
             => /\ sessions'[n].result \in MineralIds
                /\ minerals[sessions'[n].result] >= 1
                /\ minerals'[sessions'[n].result] >= 0
          /\ (\A id \in MineralIds : minerals[id] = 0)
             => /\ sessions'[n].state = "depleted"
                /\ sessions'[n].result = "null"
                /\ minerals' = minerals]_vars

\* C33 witness: a pool with no copper, the first kind the draw looks at, has
\* granted another kind, and a later draw from the emptied pool has ended
\* depleted
C33_Witness ==
    /\ minerals["copper"] = 0
    /\ \E n \in 1..Len(sessions) : sessions[n].state = "found"
    /\ \A n \in 1..Len(sessions) : sessions[n].result # "copper"
    /\ \E n \in 1..Len(sessions) : sessions[n].state = "depleted"
    /\ getTotalResources(minerals) = 0

\* C33 for Mine.mine of the mining system, which keeps one count for all
\* kinds: a dig that ends with no unit left is granted nothing and the
\* count stays 0
C33_EmptyMineGrantsNothing ==
    [][(Len(digs') < Len(digs) /\ currentResources = 0)
       => /\ ~result'.success
          /\ currentResources' = 0
          /\ characters' = characters]_vars

-----------------------------------------------------------------------------
\* the classification the thresholds of updateRelationshipType give for the
\* trust, affection and interaction count of r alone
ClassifiedFromAxes(r) ==
    updateRelationshipType([r EXCEPT !.relationshipType = STRANGER])
        .relationshipType

\* C34: the relationship type of every record is the one computed from its
\* current trust, affection and interaction count alone
C34_TypeDerivedFromAxes ==
    \A p \in SocialPairs :
        HasRecord(relationships, p[1], p[2])
        => relationships[p[1]][p[2]].relationshipType
             = ClassifiedFromAxes(relationships[p[1]][p[2]])

\* C34 witness: four cooperations and a betrayal have left a record with
\* trust 0.1 and affection -0.2 that is still classified as a friend
C34_Witness ==
    /\ HasRecord(relationships, "c1", "c2")
    /\ relationships["c1"]["c2"].interactions = 5
    /\ relationships["c1"]["c2"].trust = 10
    /\ relationships["c1"]["c2"].affection = -20
    /\ relationships["c1"]["c2"].relationshipType = FRIEND

\* C34, what does hold: whenever one of the thresholds applies, the type
\* stored is the one it gives
C34_TypeFollowsThresholds ==
    \A p \in SocialPairs :
        HasRecord(relationships, p[1], p[2])
        => LET r == relationships[p[1]][p[2]]
           IN  ClassifiedFromAxes(r) # STRANGER
               => r.relationshipType = ClassifiedFromAxes(r)

-----------------------------------------------------------------------------
\* interactions of the record from holds about to; 0 when there is none
InteractionsOf(rels, from, to) ==
    IF HasRecord(rels, from, to) THEN rels[from][to].interactions ELSE 0

\* the record from holds about to exists after the step, has one interaction
\* more than before it and carries the time of the event
CountedIn(rels, rels2, from, to) ==
    /\ HasRecord(rels2, from, to)
    /\ rels2[from][to].interactions = InteractionsOf(rels, from, to) + 1
    /\ rels2[from][to].lastInteraction = gameTime

\* C35: every event applied from A to B leaves a record of A about B,
\* created if it was absent, whose interaction count is one more than before
\* (1 for a new record) and whose last-interaction time is the time of the
\* event; the symmetric update of SocialSystem does so in both directions
C35_EveryEventCounted ==
    [][/\ result'.op = "Relationship.update"
          => CountedIn(relationships, relationships', result'.id, result'.arg)
       /\ result'.op = "SocialSystem.updateRelationship"
          => /\ CountedIn(relationships, relationships', result'.id,
                          result'.arg)
             /\ CountedIn(relationships, relationships', result'.arg,
                          result'.id)]_vars

\* C35 witness: an event was applied from c1 to c2 at time 0 while c1 held
\* no record about c2, and there is still none
C35_Witness ==
    /\ result = Returned("Relationship.update", "c1", FALSE, "c2", 0)
    /\ gameTime = 1
    /\ ~HasRecord(relationships, "c1", "c2")

\* an event applied to a record that exists is counted once and stamps the
\* time of the event
C35_PresentRecordCounted ==
    [][/\ result'.op = "Relationship.update"
       /\ HasRecord(relationships, result'.id, result'.arg)
       => CountedIn(relationships, relationships', result'.id, result'.arg)]_vars

\* RelationshipManager.updateRelationship creates the record when it is
\* absent, counts the memory once and stamps the time of the event
C35_ManagerCreatesAndCounts ==
    [][result'.op = "updateRelationship"
       => /\ HasRecord(managed', result'.id, result'.arg)
          /\ managed'[result'.id][result'.arg].totalInteractions
               = (IF HasRecord(managed, result'.id, result'.arg)
                  THEN managed[result'.id][result'.arg].totalInteractions
                  ELSE 0) + 1
          /\ managed'[result'.id][result'.arg].lastInteraction = gameTime]_vars

-----------------------------------------------------------------------------
(* The remembered interactions: the memories of one relationship record
   under more events than any list is meant to keep, and the MemoryStore of
   one agent filled beyond maxMemories *)

MaxRecallTime == 12

NextRecall ==
    \/ StartConversation("c1", "c2")
    \/ /\ gameTime < MaxRecallTime
       /\ ApplyEvent("c1", "c2", [type |-> FRIENDLY_CHAT, impact |-> 5])
    \/ \E memory \in {m \in Memories : m.type = "conversation"} :
          /\ gameTime < MaxRecallTime
          /\ ManagerUpdateRelationship("c1", "c2", memory)

SpecRecall == InitAxes /\ [][NextRecall]_vars

\* MemoryStore.maxMemories
maxMemories == 100

\* values of Memory.importance, in tenths
Importances == {3, 8}

MaxAdds == 103
MaxImportant == 1

\* Array.prototype.sort((a, b) => b.importance - a.importance): the most
\* important first, entries of equal importance in the order they had
RECURSIVE sortByImportance(_, _)
sortByImportance(ms, levels) ==
    IF levels = {} THEN <<>>
    ELSE LET top == CHOOSE x \in levels : \A y \in levels : y <= x
             same(m) == m.importance = top
         IN  SelectSeq(ms, same) \o sortByImportance(ms, levels \ {top})

\* MemoryStore.cleanup()
MemoryStore_cleanup(ms) ==
    LET sorted == sortByImportance(ms, {ms[i].importance : i \in DOMAIN ms})
    IN  SubSeq(sorted, 1, Min(Len(sorted), maxMemories))

\* MemoryStore.add(memory)
MemoryStore_add(ms, memory) ==
    LET pushed == Append(ms, memory)
    IN  IF Len(pushed) > maxMemories THEN MemoryStore_cleanup(pushed)
        ELSE pushed

\* the number of entries of ms as important as the most important kind
Important(ms) ==
    Len(SelectSeq(ms, LAMBDA m : m.importance = 8))

\* memoryStore.add({importance, timestamp: now})
AddMemory(importance) ==
    /\ gameTime < MaxAdds
    /\ importance = 8 => Important(memories) < MaxImportant
    /\ memories' = MemoryStore_add(memories, [importance |-> importance,
                                              timestamp |-> gameTime])
    /\ gameTime' = gameTime + 1
    /\ result' = Returned("MemoryStore.add", "c1", TRUE, "null", importance)
    /\ UNCHANGED <<characters, shopVars, mineVars, refreshVars, socialVars,
                   loopVars, digVars, schedulerVars, engineVars>>

NextStore == \E importance \in Importances : AddMemory(importance)

SpecStore == InitAxes /\ [][NextStore]_vars

\* C36: no list of remembered interactions grows beyond its cap: the
\* memories of a Relationship record, the memories and the recent
\* interactions RelationshipManager keeps (at most 10 are kept), and the
\* MemoryStore of an agent (maxMemories)
C36_MemoriesWithinCap ==
    /\ \A p \in SocialPairs :
          /\ HasRecord(relationships, p[1], p[2])
             => Len(relationships[p[1]][p[2]].memories) <= 10
          /\ HasRecord(managed, p[1], p[2])
             => /\ Len(managed[p[1]][p[2]].memories) <= 10
                /\ Len(managed[p[1]][p[2]].recentInteractions) <= 10
    /\ Len(memories) <= maxMemories

\* C36 witness: eleven events were applied to the record of c1 about c2 and
\* all eleven are remembered
C36_Witness ==
    /\ HasRecord(relationships, "c1", "c2")
    /\ relationships["c1"]["c2"].interactions = 11
    /\ Len(relationships["c1"]["c2"].memories) = 11

\* the memories of a record are never evicted: a Relationship keeps one per
\* event applied to it and RelationshipManager one per memory; only the
\* recent interactions are limited, to the 10 latest
C36_OneMemoryPerEvent ==
    \A p \in SocialPairs :
        /\ HasRecord(relationships, p[1], p[2])
           => Len(relationships[p[1]][p[2]].memories)
                = relationships[p[1]][p[2]].interactions
        /\ HasRecord(managed, p[1], p[2])
           => /\ Len(managed[p[1]][p[2]].memories)
                   = managed[p[1]][p[2]].totalInteractions
              /\ Len(managed[p[1]][p[2]].recentInteractions)
                   = Min(10, managed[p[1]][p[2]].totalInteractions)

\* the entries of a list, as a set
Entries(ms) == {ms[i] : i \in DOMAIN ms}

\* the MemoryStore never holds more than maxMemories entries
C36_StoreWithinCap == Len(memories) <= maxMemories

\* an add to a full MemoryStore keeps maxMemories entries, and the entry it
\* drops, among the old ones and the new one, is no more important than any
\* entry kept
C36_StoreEvictsLeastImportant ==
    [][/\ result'.op = "MemoryStore.add"
       /\ Len(memories) = maxMemories
       => /\ Len(memories') = maxMemories
          /\ \E i \in 1..(maxMemories + 1) :
                LET pushed == Append(memories, [importance |-> result'.n,
                                                timestamp |-> gameTime])
                IN  /\ \A m \in Entries(memories') :
                          pushed[i].importance <= m.importance
                    /\ Entries(memories') = Entries(RemoveAt(pushed, i))]_vars

\* the MemoryStore is full, holds an important entry, and one more entry
\* has been added to it
C36_WitnessStore ==
    /\ Len(memories) = maxMemories
    /\ gameTime = maxMemories + 2
    /\ Important(memories) = MaxImportant

-----------------------------------------------------------------------------
\* the units of the first i kinds of MineralOrder
RECURSIVE CumulativeCount(_, _)
CumulativeCount(m, i) ==
    IF i = 0 THEN 0 ELSE CumulativeCount(m, i - 1) + MapGetOr0(m, MineralOrder[i])

\* the kind whose cumulative-weight interval contains the roll, the weights
\* being the counts and the roll (roll100 / 100, of 100) the same fraction of
\* their sum
IntervalItem(m, roll100) ==
    LET i == CHOOSE k \in 1..Len(MineralOrder) :
                 /\ CumulativeCount(m, k - 1) * 10000 <= roll100 * getTotalResources(m)
                 /\ roll100 * getTotalResources(m) < CumulativeCount(m, k) * 10000
    IN  MineralOrder[i]

\* C37: a draw from a pool that is not empty, with any roll of [0, 100),
\* returns the kind whose cumulative-weight interval contains the roll: it
\* never returns nothing
C37_DrawReturnsIntervalItem ==
    [][\A n \in DrawnSessions, roll100 \in Rolls :
          UpdateMining(n, roll100) /\ getTotalResources(minerals) > 0
          => /\ sessions'[n].state = "found"
             /\ sessions'[n].result = IntervalItem(minerals, roll100)]_vars

\* C37 witness: the only draw made from a pool has returned nothing, and the
\* pool still holds every unit it had
C37_Witness ==
    /\ Len(sessions) = 1
    /\ sessions[1].state = "depleted"
    /\ totalCapacity > 0
    /\ getTotalResources(minerals) = totalCapacity

\* what a draw returns is nothing or a kind the pool holds units of, and it
\* is the same for the same roll and the same pool: with roll 0 the first
\* kind in pool order that has units left
C37_DrawnKindIsInPool ==
    [][\A n \in DrawnSessions, roll100 \in Rolls :
          UpdateMining(n, roll100)
          => /\ sessions'[n].result
                  \in {"null"} \cup {id \in MineralIds : MapGetOr0(minerals, id) > 0}
             /\ sessions'[n].result = attemptMine(minerals, roll100).mineral
             /\ roll100 = 0 /\ getTotalResources(minerals) > 0
                => sessions'[n].result = IntervalItem(minerals, 0)]_vars

-----------------------------------------------------------------------------
\* the agents that have a session under way at the mine
WorkingAgents(ss) ==
    {ss[n].characterId : n \in {k \in 1..Len(ss) : ss[k].state = "mining"}}

\* C38: the miners of a site, and the agents with a session under way, are
\* never more than its capacity; a startMining at a full site fails and
\* changes neither the miners nor any character; and every session that ends
\* takes its agent off the miners and clears the agent's current action
C38_RosterAsSpecified ==
    [][/\ Cardinality(currentMiners') <= MineCapacity
       /\ Cardinality(WorkingAgents(sessions')) <= MineCapacity
       /\ (/\ \E id \in DOMAIN characters : StartMining(id)
           /\ Cardinality(currentMiners) >= MineCapacity)
          => /\ ~result'.success
             /\ currentMiners' = currentMiners
             /\ characters' = characters
       /\ \A n \in DrawnSessions :
             /\ sessions'[n].characterId \notin currentMiners'
             /\ MapHas(characters', sessions'[n].characterId)
                => characters'[sessions'[n].characterId].currentAction
                     = "null"]_vars

\* C38 witness: every session of c1 has ended, the last of them after c1
\* was removed, and c1 is still one of the miners of the site
C38_Witness ==
    /\ "c1" \in currentMiners
    /\ "c1" \notin WorkingAgents(sessions)
    /\ \E n \in 1..Len(sessions) : sessions[n].characterId = "c1"
    /\ ~MapHas(characters, "c1")

\* the same for the sessions of agents that still exist when their session
\* ends, and whatever the agent: a site that is full refuses, and the miners
\* are never more than the capacity
C38_LiveAgentsLeaveRoster ==
    [][/\ Cardinality(currentMiners') <= MineCapacity
       /\ Cardinality(WorkingAgents(sessions')) <= MineCapacity
       /\ (/\ \E id \in DOMAIN characters : StartMining(id)
           /\ Cardinality(currentMiners) >= MineCapacity)
          => /\ ~result'.success
             /\ currentMiners' = currentMiners
             /\ characters' = characters
       /\ \A n \in DrawnSessions :
             MapHas(characters, sessions'[n].characterId)
             => /\ sessions'[n].characterId \notin currentMiners'
                /\ characters'[sessions'[n].characterId].currentAction
                     = "null"]_vars

\* the site is full and a startMining has just been refused
C38_WitnessFull ==
    /\ Cardinality(currentMiners) = MineCapacity
    /\ result.op = "startMining"
    /\ ~result.success
    /\ getTotalResources(minerals) > 0

-----------------------------------------------------------------------------
\* C39: game time never decreases; a step adds to it at most the wall-clock
\* time that passes in the step, and nothing at all in a step that begins
\* with the game paused or not running, so that time that passes during a
\* pause is not added by resume or by the frames after it
C39_GameTimeMonotonic ==
    [][/\ gameTime' >= gameTime
       /\ gameTime' - gameTime <= performanceNow' - performanceNow
       /\ (isPaused \/ ~isRunning) => gameTime' = gameTime]_vars

\* C39 witness: the game ran, was paused while at least one animation frame
\* passed without an update, and has just been resumed
C39_Witness ==
    /\ result.op = "resume"
    /\ status = "paused"
    /\ isRunning /\ ~isPaused
    /\ frameUpdates = 0
    /\ gameTime > 0
    /\ gameTime < performanceNow
    /\ lastFrameTime = performanceNow

====
